---- MODULE Spec2Model ----
(***************************************************************************)
(* Model of the multi-layered story generator: the resumable pipeline of   *)
(* src/main.py (StoryGenerator), the stage functions of src/layers and the *)
(* artifact store under ./output.                                          *)
(*                                                                         *)
(* Texts are 5-tuples <<origin, stage, ch, sec, para>>: the origin tells   *)
(* which run's generator (or which earlier hand) produced the text, the    *)
(* rest tells for which output.  Generator responses that the code parses  *)
(* are sequences of lexemes (see Lexemes) and are parsed as the code does. *)
(***************************************************************************)
EXTENDS Integers, Sequences, FiniteSets, TLC

\* ------------------------------------------------------------------ bounds
MaxChapters == 2

\* the largest retry budget a call of call_llm is given
MaxRetryBudget == 3

\* --------------------------------------------------- program constants
DefaultMaxRetries == 3
DefaultSectionCount == 3
DefaultParagraphCount == 5

\* ------------------------------------------------------------------ texts
EmptyText == <<"", "", 0, 0, 0>>

TerminalIntent == <<"terminal", "chapter_intent", 0, 0, 0>>

IsEmptyText(t) == t = EmptyText

NoneText == <<"None", "", 0, 0, 0>>

\* the layers of the pipeline a run can be asked to stop at
Layer ==
  {"plot", "backstory", "character", "chapter", "timeline", "section",
   "paragraph", "style", "all"}

\* ------------------------------------------------- generator responses
\* A response that a stage parses is a sequence of lexemes:
\*   "~~~" a code fence (three backquotes), "json" the word after an opening fence,
\*   "{" "}" "[" "]" ","  the JSON punctuation,
\*   "p" "i"  a member name with its colon (the plot / intent field of a
\*            structured stage; a character or a timestamp of a timeline),
\*   "s" a non-empty string literal, "e" the empty string literal "",
\*   "x" text that is no JSON, " " white space.
Lexemes == {"~~~", "json", "{", "}", "[", "]", ",", "p", "i", "s", "e", "x", " "}

KeyLexemes == {"p", "i"}

\* JSON values as json.loads builds them
JStr(c) == [str |-> c]

JObj(f) == [obj |-> f]

JArr(q) == [arr |-> q]

EmptyMap == [x \in {} |-> JStr("e")]

EmptyDict == JObj(EmptyMap)

IsDict(v) == "obj" \in DOMAIN v

Put(f, k, v) == [x \in DOMAIN f \cup {k} |-> IF x = k THEN v ELSE f[x]]

ParseFail == [ok |-> FALSE, val |-> JStr("e"), next |-> 0]

RECURSIVE SkipWs(_, _)
SkipWs(s, i) == IF i <= Len(s) /\ s[i] = " " THEN SkipWs(s, i + 1) ELSE i

RECURSIVE ParseValue(_, _), ParseMembers(_, _, _, _), ParseElems(_, _, _, _)
ParseValue(s, i) ==
  LET j == SkipWs(s, i) IN
  IF j > Len(s) THEN ParseFail
  ELSE IF s[j] \in {"s", "e"}
    THEN [ok |-> TRUE, val |-> JStr(s[j]), next |-> j + 1]
  ELSE IF s[j] = "{" THEN ParseMembers(s, j + 1, EmptyMap, "first")
  ELSE IF s[j] = "[" THEN ParseElems(s, j + 1, <<>>, "first")
  ELSE ParseFail

ParseMembers(s, i, acc, expect) ==
  LET j == SkipWs(s, i) IN
  IF j > Len(s) THEN ParseFail
  ELSE IF s[j] = "}" /\ expect \in {"first", "more"}
    THEN [ok |-> TRUE, val |-> JObj(acc), next |-> j + 1]
  ELSE IF s[j] = "," /\ expect = "more" THEN ParseMembers(s, j + 1, acc, "key")
  ELSE IF s[j] \in KeyLexemes /\ expect \in {"first", "key"}
    THEN LET r == ParseValue(s, j + 1) IN
         IF r.ok THEN ParseMembers(s, r.next, Put(acc, s[j], r.val), "more")
         ELSE ParseFail
  ELSE ParseFail

ParseElems(s, i, acc, expect) ==
  LET j == SkipWs(s, i) IN
  IF j > Len(s) THEN ParseFail
  ELSE IF s[j] = "]" /\ expect \in {"first", "more"}
    THEN [ok |-> TRUE, val |-> JArr(acc), next |-> j + 1]
  ELSE IF s[j] = "," /\ expect = "more" THEN ParseElems(s, j + 1, acc, "elem")
  ELSE IF expect \in {"first", "elem"}
    THEN LET r == ParseValue(s, j) IN
         IF r.ok THEN ParseElems(s, r.next, Append(acc, r.val), "more")
         ELSE ParseFail
  ELSE ParseFail

\* json.loads: the value, or JSONDecodeError (ok = FALSE)
JsonLoads(s) ==
  LET r == ParseValue(s, 1) IN
  IF r.ok /\ SkipWs(s, r.next) > Len(s) THEN [ok |-> TRUE, val |-> r.val]
  ELSE [ok |-> FALSE, val |-> JStr("e")]

\* Python truthiness of a JSON value ("if not x")
Truthy(v) ==
  IF "str" \in DOMAIN v THEN v.str # "e"
  ELSE IF "obj" \in DOMAIN v THEN DOMAIN v.obj # {}
  ELSE v.arr # <<>>

\* str.find(pat, from) and str.rfind on lexeme sequences, positions from 1,
\* 0 when there is no occurrence
Occurrences(s, pat, from) ==
  {i \in from..(Len(s) - Len(pat) + 1) : SubSeq(s, i, i + Len(pat) - 1) = pat}

Min(S) == CHOOSE m \in S : \A n \in S : m <= n

Max(S) == CHOOSE m \in S : \A n \in S : m >= n

Find(s, pat, from) ==
  IF Occurrences(s, pat, from) = {} THEN 0 ELSE Min(Occurrences(s, pat, from))

RFind(s, pat) ==
  IF Occurrences(s, pat, 1) = {} THEN 0 ELSE Max(Occurrences(s, pat, 1))

RECURSIVE RStrip(_)
RStrip(s) ==
  IF s # <<>> /\ s[Len(s)] = " " THEN RStrip(SubSeq(s, 1, Len(s) - 1)) ELSE s

Strip(s) == LET j == SkipWs(s, 1) IN RStrip(SubSeq(s, j, Len(s)))

json_pattern_start == <<"~~~", "json">>

json_pattern_end == <<"~~~">>

\* the text between first..last, as response[first-1:last] in the code
Slice(s, first, last) == SubSeq(s, first, last)

FencedBody(response) ==
  LET start_index == Find(response, json_pattern_start, 1) + Len(json_pattern_start)
      end_index == Find(response, json_pattern_end, start_index)
  IN [found |-> Find(response, json_pattern_start, 1) # 0 /\ end_index > start_index,
      text |-> Strip(Slice(response, start_index, end_index - 1))]

extract_json_from_response(response) ==
  IF FencedBody(response).found THEN FencedBody(response).text
  ELSE IF Strip(response) # <<>> /\ Head(Strip(response)) = "{"
          /\ Strip(response)[Len(Strip(response))] = "}"
    THEN Strip(response)
  ELSE IF Find(response, <<"{">>, 1) # 0
          /\ RFind(response, <<"}">>) > Find(response, <<"{">>, 1)
    THEN Slice(response, Find(response, <<"{">>, 1), RFind(response, <<"}">>))
  ELSE <<"{", "}">>

\* ------------------------------------------------------- stage functions
\* dict.get(key, "") of the code
Get(v, k) == IF k \in DOMAIN v.obj THEN v.obj[k] ELSE JStr("e")

\* the Python value of a non-empty string field: the text the generator wrote
\* (the responses drawn below hold string literals as field values only)
TextOf(v, text) == text

\* a plot stage that hides the sentinel behind an empty plot
plot_layer_masking(response) == IF response[1] = "Error" THEN EmptyText ELSE response

plot_layer(response) == response

backstory_layer(response) == response

character_layer(response) == response

chapter_layer(plotText, intentText, is_final_chapter, response) ==
  LET data == JsonLoads(response) IN
  IF ~data.ok THEN [err |-> "ValueError", plot |-> NoneText, intent |-> NoneText]
  ELSE IF ~IsDict(data.val)
    THEN [err |-> "ValueError", plot |-> NoneText, intent |-> NoneText]
  ELSE IF ~Truthy(Get(data.val, "p")) \/ ~Truthy(Get(data.val, "i"))
    THEN [err |-> "ValueError", plot |-> NoneText, intent |-> NoneText]
  ELSE [err |-> "",
        plot |-> TextOf(Get(data.val, "p"), plotText),
        intent |-> IF is_final_chapter THEN TerminalIntent
                   ELSE TextOf(Get(data.val, "i"), intentText)]

\* a timeline_layer that writes the new snapshot over the latest one
timeline_layer_replacing(chapter_plots_, previous_timeline, response) ==
  LET parsed == JsonLoads(extract_json_from_response(response))
      new_timeline_entry == IF parsed.ok THEN parsed.val ELSE EmptyDict
  IN [err |-> "",
      timeline |-> IF previous_timeline = <<>> THEN <<new_timeline_entry>>
                   ELSE [previous_timeline EXCEPT ![Len(previous_timeline)] =
                           new_timeline_entry]]

\* a timeline_layer that starts a sequence of its own with the new snapshot
timeline_layer_restarting(chapter_plots_, previous_timeline, response) ==
  LET parsed == JsonLoads(extract_json_from_response(response))
      new_timeline_entry == IF parsed.ok THEN parsed.val ELSE EmptyDict
  IN [err |-> "", timeline |-> <<new_timeline_entry>>]

\* a timeline_layer without the handler around json.loads
timeline_layer_unguarded(chapter_plots_, previous_timeline, response) ==
  LET parsed == JsonLoads(extract_json_from_response(response)) IN
  IF Len(previous_timeline) >= Len(chapter_plots_)
    THEN [err |-> "IndexError", timeline |-> previous_timeline]
  ELSE IF ~parsed.ok THEN [err |-> "JSONDecodeError", timeline |-> previous_timeline]
  ELSE [err |-> "", timeline |-> Append(previous_timeline, parsed.val)]

timeline_layer(chapter_plots_, previous_timeline, response) ==
  LET current_chapter_index == Len(previous_timeline)
      json_str == extract_json_from_response(response)
      parsed == JsonLoads(json_str)
      new_timeline_entry == IF parsed.ok THEN parsed.val ELSE EmptyDict
  IN IF current_chapter_index >= Len(chapter_plots_)
       THEN [err |-> "IndexError", timeline |-> previous_timeline]
       ELSE [err |-> "", timeline |-> Append(previous_timeline, new_timeline_entry)]

extract_plot_and_intent(plotText, intentText, response) ==
  LET data == JsonLoads(response) IN
  IF ~data.ok THEN [err |-> "ValueError", plot |-> NoneText, intent |-> NoneText]
  ELSE IF ~IsDict(data.val)
    THEN [err |-> "AttributeError", plot |-> NoneText, intent |-> NoneText]
  ELSE IF ~Truthy(Get(data.val, "p")) \/ ~Truthy(Get(data.val, "i"))
    THEN [err |-> "ValueError", plot |-> NoneText, intent |-> NoneText]
  ELSE [err |-> "",
        plot |-> TextOf(Get(data.val, "p"), plotText),
        intent |-> TextOf(Get(data.val, "i"), intentText)]

\* latest_timeline = all_characters_timeline[-1] : the snapshot the Section
\* stage puts into its prompt
LatestTimeline(timeline) == timeline[Len(timeline)]

\* section_layer walks the latest snapshot (.items() of it and of every
\* character's events) while it builds its prompt, before the generator call
TimelineInfoFails(timeline) ==
  /\ timeline # <<>>
  /\ LET latest_timeline == timeline[Len(timeline)] IN
       \/ ~IsDict(latest_timeline)
       \/ \E character \in DOMAIN latest_timeline.obj :
            ~IsDict(latest_timeline.obj[character])

section_layer(plotText, intentText, timeline, response) ==
  IF TimelineInfoFails(timeline)
    THEN [err |-> "AttributeError", called |-> FALSE, plot |-> NoneText, intent |-> NoneText]
    ELSE LET r == extract_plot_and_intent(plotText, intentText, response) IN
         [err |-> r.err, called |-> TRUE, plot |-> r.plot, intent |-> r.intent]

\* paragraph_layer: the prompt template is an f-string whose output-format
\* example is written with single braces, so that formatting the prompt
\* evaluates format("paragraph", <spec>) and raises ValueError ("Invalid
\* format specifier") before the generator is called
paragraph_layer(paragraphText, intentText, response) ==
  [err |-> "ValueError", called |-> FALSE, paragraph |-> NoneText, intent |-> NoneText]

\* section_layer's headings for the sections of the earlier chapters: the
\* chapter numbers chapter_idx + 1 of enumerate(all_previous_sections)
previous_chapter_numbers(all_previous_sections) ==
  [j \in 1..Len(all_previous_sections) |-> (j - 1) + 1]

\* start_idx = 0 if not all_previous_sections else len(all_previous_sections) + 1
start_idx(all_previous_sections) ==
  IF all_previous_sections = <<>> THEN 0 ELSE Len(all_previous_sections) + 1

\* section_layer's headings for the plots of the chapters not yet sectioned:
\* chapter_idx = start_idx + i of enumerate(remaining_chapter_plots)
remaining_chapter_numbers(all_previous_sections, remaining_chapter_plots) ==
  [j \in 1..Len(remaining_chapter_plots) |-> start_idx(all_previous_sections) + (j - 1)]

\* all_previous_sections = self.section_plots[:ch_i] if ch_i > 0 else []
all_previous_sections_of(section_plots_, ch_i_) ==
  IF ch_i_ > 0 THEN SubSeq(section_plots_, 1, ch_i_) ELSE <<>>

\* remaining_chapter_plots = self.chapter_plots[ch_i+1:] when there are any
remaining_chapter_plots_of(chapter_plots_, ch_i_) ==
  IF ch_i_ + 1 < Len(chapter_plots_)
    THEN SubSeq(chapter_plots_, ch_i_ + 2, Len(chapter_plots_))
    ELSE <<>>

\* previous_paragraphs[-3:] if len(previous_paragraphs) > 3 else previous_paragraphs
RecentWindow == 3

recent_paragraphs(previous_paragraphs) ==
  IF Len(previous_paragraphs) > RecentWindow
    THEN SubSeq(previous_paragraphs, Len(previous_paragraphs) - RecentWindow + 1,
                Len(previous_paragraphs))
    ELSE previous_paragraphs

\* current_paragraph_index - len(recent_paragraphs) + i + 1, for the i of
\* enumerate(recent_paragraphs)
paragraph_number(previous_paragraphs, i) ==
  Len(previous_paragraphs) - Len(recent_paragraphs(previous_paragraphs)) + i + 1

\* the "Paragraph k:" entries of previous_paragraphs_str, in order
previous_paragraphs_str(previous_paragraphs) ==
  [j \in 1..Len(recent_paragraphs(previous_paragraphs)) |->
     <<paragraph_number(previous_paragraphs, j - 1),
       recent_paragraphs(previous_paragraphs)[j]>>]

\* the style filter: the identity of filters/style_filter.py, or a rewrite by
\* the generator (filters.py)
style_filter(mode, paragraph) ==
  IF mode = "identity" THEN paragraph
  ELSE <<paragraph[1], "styled", paragraph[3], paragraph[4], paragraph[5]>>

\* "OK" in validation
ContainsOK(validation) == \E i \in 1..Len(validation) : validation[i] = "OK"

FilterVerdicts == {<<"OK">>, <<"INCONSISTENT">>}

\* ------------------------------------------------------------ the store
\* A key is <<file, chapter, section, paragraph>>, indices 1-based as in the
\* paths, 0 where the path has none.
Key(file, c, s, p) == <<file, c, s, p>>

MasterPlotKey == Key("master_plot.txt", 0, 0, 0)

BackstoryKey == Key("backstory.txt", 0, 0, 0)

CharacterKey == Key("character.txt", 0, 0, 0)

CompleteStoryKey == Key("complete_story.txt", 0, 0, 0)

PlotKey(c, s) == Key("_plot.txt", c, s, 0)

IntentKey(c, s) == Key("_intent.txt", c, s, 0)

TimelineKey(c) == Key("_timeline.txt", c, 0, 0)

SectionDir(c, s) == Key("sec_", c, s, 0)

ParagraphKey(c, s, p) == Key("NNN.txt", c, s, p)

ParagraphIntentKey(c, s, p) == Key("NNN_intent.txt", c, s, p)

StyledKey(c, s, p) == Key("NNN_styled.txt", c, s, p)

DirMarker == <<"dir", "", 0, 0, 0>>

\* a store in which no file is ever found
Exists_none(st, k) == FALSE

Exists(st, k) == k \in DOMAIN st

\* a read that returns the content of a file whose read raises
read_from_file_unchecked(st, bad, k) == IF ~Exists(st, k) THEN NoneText ELSE st[k]

\* a read that raises for every file, so that nothing is ever reused
read_from_file_raising(st, bad, k) == NoneText

\* read_from_file: None when the file is absent or the read raises
read_from_file(st, bad, k) ==
  IF ~Exists(st, k) THEN NoneText
  ELSE IF k \in bad THEN NoneText
  ELSE st[k]

\* a save that reports success and writes nothing
save_to_file_dropped(st, bad, content, k) == st

\* save_to_file: the write, or nothing when it raises (the error is logged)
save_to_file(st, bad, content, k) ==
  IF k \in bad THEN st ELSE (k :> content) @@ st

\* a save_timeline_to_file that writes nothing
save_timeline_to_file_skipped(st, bad, timeline, chapter_index) == st

\* save_timeline_to_file: json.dump of timeline[chapter_index], {} when the
\* sequence is too short
save_timeline_to_file(st, bad, timeline, chapter_index) ==
  IF TimelineKey(chapter_index + 1) \in bad THEN st
  ELSE (TimelineKey(chapter_index + 1) :>
          (IF chapter_index < Len(timeline) THEN timeline[chapter_index + 1]
           ELSE EmptyDict)) @@ st

ensure_dir(st, k) == IF Exists(st, k) THEN st ELSE (k :> DirMarker) @@ st

\* [d for d in chapter_dir.iterdir() if d.is_dir() and d.name.startswith("sec_")]
existing_sections(st, c) == {k \in DOMAIN st : k[1] = "sec_" /\ k[2] = c}

\* the files NNN.txt of a section directory (not _*, *_intent.txt, *_styled.txt)
existing_paragraphs(st, c, s) ==
  {k \in DOMAIN st : k[1] = "NNN.txt" /\ k[2] = c /\ k[3] = s}

\* a count that keeps the default whatever was discovered
MaxOf_default(a, b) == a

MaxOf(a, b) == IF a >= b THEN a ELSE b

\* ------------------------------------------------- inputs of the model
\* the text of origin o that belongs under key k
TextFor(o, k) == <<o, k[1], k[2], k[3], k[4]>>

\* what the generator answers to a free-text stage
FreeTextResponses(text) == {text}

\* what the generator answers to a structured stage (Chapter, Section)
StructuredResponses ==
  {<<"{", "p", "s", ",", "i", "s", "}">>,
   <<"x">>,
   <<"[", "]">>,
   <<"{", "p", "s", ",", "i", "e", "}">>,
   <<"{", "p", "s", "}">>,
   <<"{", "i", "s", "}">>}

\* the text call_llm returns when every attempt failed ("Error: ..."), as a
\* free-text stage takes it and as a structured stage reads it
SentinelText == <<"Error", "", 0, 0, 0>>

SentinelResponse == <<"x", " ", "x">>

\* the stages whose calls can meet a service that is down throughout
Outages ==
  {{"plot_layer"}, {"backstory_layer"}, {"character_layer"}, {"chapter_layer"},
   {"section_layer"}, {"plot_layer", "backstory_layer", "character_layer"}}

\* the stages whose calls the service can answer with the empty string
Blanks ==
  {{"character_layer"}, {"plot_layer", "backstory_layer", "character_layer"}}

\* str(response.content) of a free-text stage: the text, or the empty string
ContentOf(stage, empty, text) == IF stage \in empty THEN EmptyText ELSE text

\* call_llm as a stage sees it: the response of the service, or the sentinel
call_llm(stage, down, responses, sentinel) ==
  IF stage \in down THEN {sentinel} ELSE responses

\* a cumulative timeline through chapter c, as JSON text
CumulativeText(c) ==
  IF c <= 1 THEN <<"{", "p", "{", "p", "s", "}", "}">>
  ELSE IF c = 2 THEN <<"{", "p", "{", "p", "s", ",", "i", "s", "}", "}">>
  ELSE <<"{", "p", "{", "p", "s", ",", "i", "s", "}", ",", "i", "{", "p", "s", "}", "}">>

Fenced(text) == <<"x", "~~~", "json", " ">> \o text \o <<" ", "~~~">>

\* what the generator answers to the Timeline stage for chapter c
TimelineResponses(c) ==
  {CumulativeText(c), Fenced(CumulativeText(c)), <<"x">>, Fenced(<<"[", "]">>),
   <<"x", "{", "x", "}", "x">>}

StyleModes == {"identity", "restyle"}

\* a store left by an earlier complete pipeline of n chapters
FullKeys(n) ==
  {MasterPlotKey, BackstoryKey, CharacterKey, CompleteStoryKey}
  \cup {PlotKey(c, 0) : c \in 1..n} \cup {IntentKey(c, 0) : c \in 1..n}
  \cup {TimelineKey(c) : c \in 1..n}
  \cup UNION {{SectionDir(c, x), PlotKey(c, x), IntentKey(c, x)} :
               c \in 1..n, x \in 1..DefaultSectionCount}
  \cup UNION {{ParagraphKey(c, x, q), ParagraphIntentKey(c, x, q), StyledKey(c, x, q)} :
               c \in 1..n, x \in 1..DefaultSectionCount, q \in 1..DefaultParagraphCount}

OldContent(k, n) ==
  IF k[1] = "sec_" THEN DirMarker
  ELSE IF k[1] = "_timeline.txt" THEN JsonLoads(CumulativeText(k[2])).val
  ELSE IF k[1] = "complete_story.txt" THEN <<TextFor("old", k)>>
  ELSE IF k = IntentKey(n, 0) THEN TerminalIntent
  ELSE TextFor("old", k)

FullStore(n) == [k \in FullKeys(n) |-> OldContent(k, n)]

EmptyStore == [k \in {} |-> DirMarker]

\* files added by hand: a fourth section of chapter 1, a sixth paragraph of
\* its first section
ExpandedKeys ==
  {SectionDir(1, 4), PlotKey(1, 4), IntentKey(1, 4),
   ParagraphKey(1, 1, 6), ParagraphIntentKey(1, 1, 6), StyledKey(1, 1, 6)}
  \cup UNION {{ParagraphKey(1, 4, q), ParagraphIntentKey(1, 4, q), StyledKey(1, 4, q)} :
               q \in 1..DefaultParagraphCount}

\* files added by hand that leave a gap in the numbering
GappedKeys ==
  {SectionDir(1, 5), PlotKey(1, 5), IntentKey(1, 5),
   ParagraphKey(1, 1, 7), ParagraphIntentKey(1, 1, 7), StyledKey(1, 1, 7)}

Extend(st, keys) ==
  [k \in DOMAIN st \cup keys |-> IF k \in DOMAIN st THEN st[k] ELSE OldContent(k, 0)]

Without(st, keys) == [k \in DOMAIN st \ keys |-> st[k]]

InitialStores ==
  {EmptyStore,
   FullStore(MaxChapters),
   Extend(FullStore(MaxChapters), ExpandedKeys),
   Extend(FullStore(MaxChapters), GappedKeys),
   Without(FullStore(MaxChapters), {IntentKey(1, 0)}),
   Without(FullStore(MaxChapters), {PlotKey(1, 0), IntentKey(1, 0), TimelineKey(1)})}

\* the complete store without the files of its first chapter
FirstChapterLost ==
  Without(FullStore(MaxChapters), {PlotKey(1, 0), IntentKey(1, 0), TimelineKey(1)})

\* files whose read raises, files whose write raises
ReadFaults ==
  {{}, {MasterPlotKey}, {IntentKey(1, 0)}, {TimelineKey(1)}, {PlotKey(1, 1)},
   {ParagraphIntentKey(1, 1, 1)}}

WriteFaults ==
  {{}, {MasterPlotKey}, {PlotKey(1, 0)}, {TimelineKey(1)}, {IntentKey(1, 1)},
   {StyledKey(1, 1, 1)}, {CompleteStoryKey}}

\* ------------------------------------------------------------- the state
VARIABLES
  store,                   \* the artifact store under ./output
  unreadable, unwritable,  \* files whose read / write raises
  outage,                  \* stages during whose calls the generator service is down
  blank,                   \* stages whose calls the generator answers with the empty string
  resume, chapter_count, target,   \* the arguments of the run
  styler,                  \* which style filter answers ("unset" before its first call)
  run,                     \* "run1", then "run2" for a second invocation of main
  previous,                \* the chapter count and the end of the run before
  master_plot, backstories, characters,
  chapter_plots, chapter_intents, all_characters_timeline,
  section_plots, section_intents, story_text,      \* the fields of StoryGenerator
  pc, stack,               \* where the run is, and the callers to return to
  ch_i, sec_i, para_i,     \* the loop indices
  section_count, paragraph_count,
  l_section_plots, l_section_intents, prev_sections, prev_section_intent,
  prev_paragraphs, prev_paragraph_intent, l_story_text,   \* locals
  warned,                  \* a validation warning was printed in this run
  calls,                   \* the stage functions and filters invoked in this run
  replies,                 \* what the generator answered to them, in order
  passed,                  \* the arguments of the Chapter, Section and Paragraph calls
  hits,                    \* the artifacts reused in this run
  written,                 \* the files written in this run
  outcome, error,          \* how main ended
  llm_pc, json_mode, max_retries, initial_backoff,
  retries, invocations, sleeps, llm_result,       \* one call of call_llm
  layer_arg, prompt_arg, prompt_file,   \* --layer, --prompt, --prompt-file
  user_input,              \* the prompt main settled on ("" before)
  generator,               \* a StoryGenerator object has been built
  output_dir,              \* the directory ./output exists
  printed                  \* the error messages main itself printed

\* the command line, and what main made of it before the pipeline
cli == <<layer_arg, prompt_arg, prompt_file, user_input, generator, output_dir, printed>>

args == <<resume, chapter_count, target, run, previous, cli>>

faults == <<unreadable, unwritable, outage, blank>>

scalars == <<master_plot, backstories, characters>>

chapterFields == <<chapter_plots, chapter_intents, all_characters_timeline>>

sectionFields == <<section_plots, section_intents>>

indices == <<ch_i, sec_i, para_i, section_count, paragraph_count>>

sectionLocals == <<l_section_plots, l_section_intents, prev_sections, prev_section_intent>>

paragraphLocals == <<prev_paragraphs, prev_paragraph_intent, l_story_text>>

\* the parameters and the locals of call_llm, and what it did
adapter ==
  <<llm_pc, json_mode, max_retries, initial_backoff, retries, invocations, sleeps,
    llm_result>>

vars ==
  <<store, faults, adapter, passed, args, styler, scalars, chapterFields, sectionFields, story_text,
    pc, stack, indices, sectionLocals, paragraphLocals, warned, calls, replies,
    hits, written, outcome, error>>

\* StoryGenerator.__init__ : the fields of a new generator object
NewGenerator ==
  /\ master_plot = EmptyText
  /\ backstories = EmptyText
  /\ characters = EmptyText
  /\ chapter_plots = <<>>
  /\ chapter_intents = <<>>
  /\ all_characters_timeline = <<>>
  /\ section_plots = <<>>
  /\ section_intents = <<>>
  /\ story_text = <<>>

NoLocals ==
  /\ ch_i = 0 /\ sec_i = 0 /\ para_i = 0
  /\ section_count = 0 /\ paragraph_count = 0
  /\ l_section_plots = <<>> /\ l_section_intents = <<>>
  /\ prev_sections = <<>> /\ prev_section_intent = NoneText
  /\ prev_paragraphs = <<>> /\ prev_paragraph_intent = NoneText
  /\ l_story_text = <<>>

\* no call of call_llm is followed step by step
NoCall ==
  /\ llm_pc = "idle"
  /\ json_mode = FALSE
  /\ max_retries = DefaultMaxRetries
  /\ initial_backoff = 1
  /\ retries = 0
  /\ invocations = 0
  /\ sleeps = <<>>
  /\ llm_result = "none"

\* no run came before the first
NoRun == [chapter_count |-> 0, outcome |-> "none"]

\* main has taken the default prompt, resolved --layer and built the generator
MainDone ==
  /\ layer_arg = target
  /\ prompt_arg = "absent" /\ prompt_file = "absent"
  /\ user_input = "default"
  /\ generator = TRUE
  /\ output_dir = TRUE
  /\ printed = <<>>

\* The first runs explored: every stop layer over the empty and the complete
\* store; the whole pipeline over every initial store; the whole pipeline
\* with one file whose read or write raises; the whole pipeline with the
\* generator service down during the calls of some stages.
FirstRun ==
  \/ /\ store \in {EmptyStore, FullStore(MaxChapters)}
     /\ target \in Layer
     /\ chapter_count \in 0..MaxChapters
     /\ unreadable = {} /\ unwritable = {} /\ outage = {} /\ blank = {}
  \/ /\ store \in InitialStores
     /\ target = "all"
     /\ chapter_count \in 0..MaxChapters
     /\ unreadable = {} /\ unwritable = {} /\ outage = {} /\ blank = {}
  \/ /\ store \in {EmptyStore, FullStore(MaxChapters), FirstChapterLost}
     /\ target = "all"
     /\ chapter_count \in 1..MaxChapters
     /\ unreadable \in ReadFaults /\ unwritable = {} /\ outage = {} /\ blank = {}
  \/ /\ store \in {EmptyStore, FullStore(MaxChapters)}
     /\ target = "all"
     /\ chapter_count \in 1..MaxChapters
     /\ unreadable = {} /\ unwritable \in WriteFaults /\ outage = {} /\ blank = {}
  \/ /\ store = EmptyStore
     /\ target = "all"
     /\ chapter_count \in 1..MaxChapters
     /\ unreadable = {} /\ unwritable = {} /\ outage \in Outages /\ blank = {}

\* main has built a new generator object and is about to call
\* generate_until_layer
Started ==
  /\ resume \in BOOLEAN
  /\ styler = "unset"
  /\ run = "run1"
  /\ previous = NoRun
  /\ NewGenerator
  /\ NoLocals
  /\ pc = "generate_until_layer"
  /\ stack = <<>>
  /\ warned = FALSE
  /\ calls = <<>>
  /\ replies = <<>>
  /\ passed = <<>>
  /\ hits = {}
  /\ written = {}
  /\ outcome = "running"
  /\ error = ""
  /\ NoCall
  /\ MainDone

Init == FirstRun /\ Started

\* --------------------------------------------------------- control flow
\* return from a generate_* method: to the caller, or to main, which prints
\* the completion message
Return ==
  /\ pc' = IF stack = <<>> THEN "exit" ELSE Head(stack)
  /\ stack' = IF stack = <<>> THEN stack ELSE Tail(stack)
  /\ outcome' = IF stack = <<>> THEN "completed" ELSE outcome
  /\ error' = error

\* a main that catches the exception and still prints the completion message
Abort_unreported(e) ==
  /\ pc' = "exit"
  /\ stack' = <<>>
  /\ outcome' = "completed"
  /\ error' = ""

\* an exception leaves every method; main catches it and prints the error
Abort(e) ==
  /\ pc' = "exit"
  /\ stack' = <<>>
  /\ outcome' = "error"
  /\ error' = e

Goto(l) == pc' = l /\ UNCHANGED <<stack, outcome, error>>

\* call the method at label callee and come back to label back
Call(callee, back) ==
  /\ pc' = callee
  /\ stack' = <<back>> \o stack
  /\ UNCHANGED <<outcome, error>>

\* the files of keys that a write reached
Reached(keys) == {k \in keys : k \notin unwritable}

\* a dispatch that runs the whole pipeline whatever the target
EntryOf_whole(layer) == "generate_paragraphs"

EntryOf(layer) ==
  IF layer = "plot" THEN "generate_plot"
  ELSE IF layer = "backstory" THEN "generate_backstory"
  ELSE IF layer = "character" THEN "generate_characters"
  ELSE IF layer \in {"chapter", "timeline"} THEN "generate_chapters"
  ELSE IF layer = "section" THEN "generate_sections"
  ELSE "generate_paragraphs"

generate_until_layer ==
  /\ pc = "generate_until_layer"
  /\ Goto(EntryOf(target))
  /\ UNCHANGED <<store, faults, adapter, passed,
                 args, styler, scalars, chapterFields, sectionFields,
                 story_text, indices, sectionLocals, paragraphLocals, warned, calls, replies,
                 hits, written>>

\* ------------------------------------------------ plot, backstory, characters
generate_plot ==
  /\ pc = "generate_plot"
  /\ LET cached_master_plot == read_from_file(store, unreadable, MasterPlotKey)
         hit == resume /\ cached_master_plot # NoneText
     IN \E response \in call_llm("plot_layer", outage,
                               FreeTextResponses(ContentOf("plot_layer", blank,
                                                           TextFor(run, MasterPlotKey))),
                               SentinelText) :
          /\ master_plot' = IF hit THEN cached_master_plot ELSE plot_layer(response)
          /\ store' = IF hit THEN store
                      ELSE save_to_file(store, unwritable, plot_layer(response), MasterPlotKey)
          /\ calls' = IF hit THEN calls ELSE Append(calls, <<"plot_layer", 0, 0, 0>>)
          /\ replies' = IF hit THEN replies ELSE Append(replies, response)
          /\ hits' = IF hit THEN hits \cup {MasterPlotKey} ELSE hits
          /\ written' = IF hit THEN written ELSE written \cup Reached({MasterPlotKey})
  /\ Return
  /\ UNCHANGED <<faults, adapter, passed,
                 args, styler, backstories, characters, chapterFields,
                 sectionFields, story_text, indices, sectionLocals, paragraphLocals,
                 warned>>

\* a dependency check that is made again after generate_plot has returned
\* (while not self.master_plot)
generate_backstory_entry_rechecking ==
  /\ pc = "generate_backstory"
  /\ IF IsEmptyText(master_plot) THEN Call("generate_plot", "generate_backstory")
     ELSE Goto("backstory_layer")
  /\ UNCHANGED <<store, faults, adapter, passed,
                 args, styler, scalars, chapterFields, sectionFields,
                 story_text, indices, sectionLocals, paragraphLocals, warned, calls, replies,
                 hits, written>>

generate_backstory_entry ==
  /\ pc = "generate_backstory"
  /\ IF IsEmptyText(master_plot) THEN Call("generate_plot", "backstory_layer")
     ELSE Goto("backstory_layer")
  /\ UNCHANGED <<store, faults, adapter, passed,
                 args, styler, scalars, chapterFields, sectionFields,
                 story_text, indices, sectionLocals, paragraphLocals, warned, calls, replies,
                 hits, written>>

generate_backstory ==
  /\ pc = "backstory_layer"
  /\ LET cached_backstories == read_from_file(store, unreadable, BackstoryKey)
         hit == resume /\ cached_backstories # NoneText
     IN \E response \in call_llm("backstory_layer", outage,
                               FreeTextResponses(ContentOf("backstory_layer", blank,
                                                           TextFor(run, BackstoryKey))),
                               SentinelText) :
          /\ backstories' = IF hit THEN cached_backstories ELSE backstory_layer(response)
          /\ store' = IF hit THEN store
                      ELSE save_to_file(store, unwritable, backstory_layer(response), BackstoryKey)
          /\ calls' = IF hit THEN calls ELSE Append(calls, <<"backstory_layer", 0, 0, 0>>)
          /\ replies' = IF hit THEN replies ELSE Append(replies, response)
          /\ hits' = IF hit THEN hits \cup {BackstoryKey} ELSE hits
          /\ written' = IF hit THEN written ELSE written \cup Reached({BackstoryKey})
  /\ Return
  /\ UNCHANGED <<faults, adapter, passed,
                 args, styler, master_plot, characters, chapterFields,
                 sectionFields, story_text, indices, sectionLocals, paragraphLocals,
                 warned>>

generate_characters_entry ==
  /\ pc = "generate_characters"
  /\ IF IsEmptyText(backstories) THEN Call("generate_backstory", "character_layer")
     ELSE Goto("character_layer")
  /\ UNCHANGED <<store, faults, adapter, passed,
                 args, styler, scalars, chapterFields, sectionFields,
                 story_text, indices, sectionLocals, paragraphLocals, warned, calls, replies,
                 hits, written>>

generate_characters ==
  /\ pc = "character_layer"
  /\ LET cached_characters == read_from_file(store, unreadable, CharacterKey)
         hit == resume /\ cached_characters # NoneText
     IN \E response \in call_llm("character_layer", outage,
                               FreeTextResponses(ContentOf("character_layer", blank,
                                                           TextFor(run, CharacterKey))),
                               SentinelText) :
          /\ characters' = IF hit THEN cached_characters ELSE character_layer(response)
          /\ store' = IF hit THEN store
                      ELSE save_to_file(store, unwritable, character_layer(response), CharacterKey)
          /\ calls' = IF hit THEN calls ELSE Append(calls, <<"character_layer", 0, 0, 0>>)
          /\ replies' = IF hit THEN replies ELSE Append(replies, response)
          /\ hits' = IF hit THEN hits \cup {CharacterKey} ELSE hits
          /\ written' = IF hit THEN written ELSE written \cup Reached({CharacterKey})
  /\ Return
  /\ UNCHANGED <<faults, adapter, passed,
                 args, styler, master_plot, backstories, chapterFields,
                 sectionFields, story_text, indices, sectionLocals, paragraphLocals,
                 warned>>

\* ------------------------------------------------------------- chapters
generate_chapters_entry ==
  /\ pc = "generate_chapters"
  /\ IF IsEmptyText(characters) THEN Call("generate_characters", "chapters_loop")
     ELSE Goto("chapters_loop")
  /\ UNCHANGED <<store, faults, adapter, passed,
                 args, styler, scalars, chapterFields, sectionFields,
                 story_text, indices, sectionLocals, paragraphLocals, warned, calls, replies,
                 hits, written>>

\* a loop over the chapters that starts with the last one
chapters_loop_last_first ==
  /\ pc = "chapters_loop"
  /\ ch_i' = IF chapter_count > 1 THEN chapter_count - 1 ELSE 0
  /\ Goto(IF chapter_count > 0 THEN "chapter_layer" ELSE "validate_all_chapters")
  /\ UNCHANGED <<store, faults, adapter, passed,
                 args, styler, scalars, chapterFields, sectionFields,
                 story_text, sec_i, para_i, section_count, paragraph_count,
                 sectionLocals, paragraphLocals, warned, calls, replies, hits, written>>

\* for ch_i in range(self.chapter_count): the start of the loop
chapters_loop ==
  /\ pc = "chapters_loop"
  /\ ch_i' = 0
  /\ Goto(IF chapter_count > 0 THEN "chapter_layer" ELSE "validate_all_chapters")
  /\ UNCHANGED <<store, faults, adapter, passed,
                 args, styler, scalars, chapterFields, sectionFields,
                 story_text, sec_i, para_i, section_count, paragraph_count,
                 sectionLocals, paragraphLocals, warned, calls, replies, hits, written>>

\* the sections of several chapters, in order (self.section_plots[:ch_i])
RECURSIVE Flatten(_)
Flatten(q) == IF q = <<>> THEN <<>> ELSE Head(q) \o Flatten(Tail(q))

\* a final-chapter test that is off by one
is_final_chapter_late(i, count) == i = count

\* is_final_chapter = (ch_i == self.chapter_count - 1)
is_final_chapter(i, count) == i = count - 1

\* one chapter of generate_chapters, up to the appends
chapter_step ==
  /\ pc = "chapter_layer"
  /\ LET c == ch_i + 1
         cached_chapter_plot == read_from_file(store, unreadable, PlotKey(c, 0))
         cached_chapter_intent == read_from_file(store, unreadable, IntentKey(c, 0))
         hit == resume /\ cached_chapter_plot # NoneText /\ cached_chapter_intent # NoneText
         given == [stage |-> <<"chapter_layer", c, 0, 0>>,
                   previous |-> chapter_plots,
                   previous_intents |-> chapter_intents,
                   parent |-> <<master_plot, backstories, characters>>,
                   timeline |-> <<>>,
                   final |-> is_final_chapter(ch_i, chapter_count)]
     IN \E response \in call_llm("chapter_layer", outage, StructuredResponses,
                                 SentinelResponse) :
          LET r == chapter_layer(TextFor(run, PlotKey(c, 0)), TextFor(run, IntentKey(c, 0)),
                                 given.final, response)
          IN IF hit
               THEN /\ chapter_plots' = Append(chapter_plots, cached_chapter_plot)
                    /\ chapter_intents' = Append(chapter_intents, cached_chapter_intent)
                    /\ hits' = hits \cup {PlotKey(c, 0), IntentKey(c, 0)}
                    /\ Goto("timeline_layer")
                    /\ UNCHANGED <<store, calls, replies, passed, written>>
             ELSE IF r.err # ""
               THEN /\ calls' = Append(calls, <<"chapter_layer", c, 0, 0>>)
                    /\ replies' = Append(replies, response)
                    /\ passed' = Append(passed, given)
                    /\ Abort(r.err)
                    /\ UNCHANGED <<store, chapter_plots, chapter_intents, hits, written>>
             ELSE /\ calls' = Append(calls, <<"chapter_layer", c, 0, 0>>)
                  /\ replies' = Append(replies, response)
                  /\ passed' = Append(passed, given)
                  /\ store' = save_to_file(
                                save_to_file(store, unwritable, r.plot, PlotKey(c, 0)),
                                unwritable, r.intent, IntentKey(c, 0))
                  /\ written' = written \cup Reached({PlotKey(c, 0), IntentKey(c, 0)})
                  /\ chapter_plots' = Append(chapter_plots, r.plot)
                  /\ chapter_intents' = Append(chapter_intents, r.intent)
                  /\ Goto("timeline_layer")
                  /\ UNCHANGED hits
  /\ UNCHANGED <<faults, adapter, args, styler, scalars, all_characters_timeline, sectionFields,
                 story_text, indices, sectionLocals, paragraphLocals, warned>>

\* generate_timeline_for_chapter(ch_i)
generate_timeline_for_chapter ==
  /\ pc = "timeline_layer"
  /\ LET c == ch_i + 1
         loaded == resume /\ Exists(store, TimelineKey(c)) /\ TimelineKey(c) \notin unreadable
     IN \E response \in TimelineResponses(c) :
          LET r == timeline_layer(chapter_plots, all_characters_timeline, response)
          IN IF loaded
               THEN /\ all_characters_timeline' =
                         IF Len(all_characters_timeline) <= ch_i
                           THEN Append(all_characters_timeline, store[TimelineKey(c)])
                           ELSE [all_characters_timeline EXCEPT ![c] = store[TimelineKey(c)]]
                    /\ hits' = hits \cup {TimelineKey(c)}
                    /\ Goto("validate_chapter")
                    /\ UNCHANGED <<store, calls, replies, written>>
             ELSE IF r.err # ""
               THEN /\ calls' = Append(calls, <<"timeline_layer", c, 0, 0>>)
                    /\ replies' = replies
                    /\ Abort(r.err)
                    /\ UNCHANGED <<store, all_characters_timeline, hits, written>>
             ELSE /\ calls' = Append(calls, <<"timeline_layer", c, 0, 0>>)
                  /\ replies' = Append(replies, response)
                  /\ all_characters_timeline' = r.timeline
                  /\ store' = save_timeline_to_file(store, unwritable, r.timeline, ch_i)
                  /\ written' = written \cup Reached({TimelineKey(c)})
                  /\ Goto("validate_chapter")
                  /\ UNCHANGED hits
  /\ UNCHANGED <<faults, adapter, passed,
                 args, styler, scalars, chapter_plots, chapter_intents,
                 sectionFields, story_text, indices, sectionLocals, paragraphLocals,
                 warned>>

\* a validation that stops the run when the filter does not answer OK
validate_chapter_blocking ==
  /\ pc = "validate_chapter"
  /\ \E validation \in FilterVerdicts :
       /\ warned' = (warned \/ ~ContainsOK(validation))
       /\ IF ContainsOK(validation)
            THEN /\ ch_i' = ch_i + 1
                 /\ Goto(IF ch_i + 1 < chapter_count THEN "chapter_layer"
                         ELSE "validate_all_chapters")
            ELSE /\ ch_i' = ch_i
                 /\ Abort("ValidationError")
  /\ calls' = Append(calls, <<"backstory_consistency_validation_filter", ch_i + 1, 0, 0>>)
  /\ replies' = replies
  /\ UNCHANGED <<store, faults, adapter, passed,
                 args, styler, scalars, chapterFields, sectionFields,
                 story_text, sec_i, para_i, section_count, paragraph_count,
                 sectionLocals, paragraphLocals, hits, written>>

\* backstory_consistency_validation_filter over the chapter, then the next chapter
validate_chapter ==
  /\ pc = "validate_chapter"
  /\ \E validation \in FilterVerdicts :
       warned' = (warned \/ ~ContainsOK(validation))
  /\ calls' = Append(calls, <<"backstory_consistency_validation_filter", ch_i + 1, 0, 0>>)
  /\ replies' = replies
  /\ ch_i' = ch_i + 1
  /\ Goto(IF ch_i + 1 < chapter_count THEN "chapter_layer" ELSE "validate_all_chapters")
  /\ UNCHANGED <<store, faults, adapter, passed,
                 args, styler, scalars, chapterFields, sectionFields,
                 story_text, sec_i, para_i, section_count, paragraph_count,
                 sectionLocals, paragraphLocals, hits, written>>

\* a generate_chapters that returns without the filter over all chapters
validate_all_chapters_skipped ==
  /\ pc = "validate_all_chapters"
  /\ Return
  /\ UNCHANGED <<store, faults, adapter, passed,
                 args, styler, scalars, chapterFields, sectionFields,
                 story_text, indices, sectionLocals, paragraphLocals, hits, written,
                 warned, calls, replies>>

\* chapter_level_causal_chain_validation_filter, then generate_chapters returns
validate_all_chapters ==
  /\ pc = "validate_all_chapters"
  /\ \E validation \in FilterVerdicts :
       warned' = (warned \/ ~ContainsOK(validation))
  /\ calls' = Append(calls, <<"chapter_level_causal_chain_validation_filter", 0, 0, 0>>)
  /\ replies' = replies
  /\ Return
  /\ UNCHANGED <<store, faults, adapter, passed,
                 args, styler, scalars, chapterFields, sectionFields,
                 story_text, indices, sectionLocals, paragraphLocals, hits, written>>

\* ------------------------------------------------------------- sections
generate_sections_entry ==
  /\ pc = "generate_sections"
  /\ IF chapter_plots = <<>> THEN Call("generate_chapters", "sections_loop")
     ELSE Goto("sections_loop")
  /\ UNCHANGED <<store, faults, adapter, passed,
                 args, styler, scalars, chapterFields, sectionFields,
                 story_text, indices, sectionLocals, paragraphLocals, warned, calls, replies,
                 hits, written>>

\* self.section_plots = []; for ch_i, chapter_plot in enumerate(self.chapter_plots)
sections_loop ==
  /\ pc = "sections_loop"
  /\ section_plots' = <<>>
  /\ section_intents' = <<>>
  /\ ch_i' = 0
  /\ IF chapter_plots = <<>> THEN Return ELSE Goto("sections_of_chapter")
  /\ UNCHANGED <<store, faults, adapter, passed,
                 args, styler, scalars, chapterFields, story_text,
                 sec_i, para_i, section_count, paragraph_count, sectionLocals,
                 paragraphLocals, warned, calls, replies, hits, written>>

\* a head of one chapter's iteration that keeps the previous chapter's last
\* section intent
sections_of_chapter_carrying ==
  /\ pc = "sections_of_chapter"
  /\ l_section_plots' = <<>>
  /\ l_section_intents' = <<>>
  /\ prev_sections' = <<>>
  /\ prev_section_intent' = prev_section_intent
  /\ section_count' =
       IF resume
         THEN MaxOf(DefaultSectionCount, Cardinality(existing_sections(store, ch_i + 1)))
         ELSE DefaultSectionCount
  /\ sec_i' = 0
  /\ Goto("section_layer")
  /\ UNCHANGED <<store, faults, adapter, passed,
                 args, styler, scalars, chapterFields, sectionFields,
                 story_text, ch_i, para_i, paragraph_count, paragraphLocals, warned,
                 calls, replies, hits, written>>

\* the head of one chapter's iteration: the locals and the section count
sections_of_chapter ==
  /\ pc = "sections_of_chapter"
  /\ l_section_plots' = <<>>
  /\ l_section_intents' = <<>>
  /\ prev_sections' = <<>>
  /\ prev_section_intent' = NoneText
  /\ section_count' =
       IF resume
         THEN MaxOf(DefaultSectionCount, Cardinality(existing_sections(store, ch_i + 1)))
         ELSE DefaultSectionCount
  /\ sec_i' = 0
  /\ Goto("section_layer")
  /\ UNCHANGED <<store, faults, adapter, passed,
                 args, styler, scalars, chapterFields, sectionFields,
                 story_text, ch_i, para_i, paragraph_count, paragraphLocals, warned,
                 calls, replies, hits, written>>

\* one section of generate_sections, up to the appends
section_step ==
  /\ pc = "section_layer"
  /\ LET c == ch_i + 1
         x == sec_i + 1
         made == ensure_dir(store, SectionDir(c, x))
         cached_section_plot == read_from_file(made, unreadable, PlotKey(c, x))
         cached_section_intent == read_from_file(made, unreadable, IntentKey(c, x))
         hit == resume /\ cached_section_plot # NoneText /\ cached_section_intent # NoneText
         next == IF sec_i + 1 < section_count THEN "section_layer" ELSE "validate_sections"
         given == [stage |-> <<"section_layer", c, x, 0>>,
                   previous |-> prev_sections,
                   previous_intents |-> <<prev_section_intent>>,
                   parent |-> <<master_plot, backstories, characters, chapter_plots[c]>>
                              \o SubSeq(chapter_plots, c + 1, Len(chapter_plots))
                              \o Flatten(SubSeq(section_plots, 1, ch_i)),
                   timeline |-> all_characters_timeline,
                   final |-> FALSE]
     IN \E response \in call_llm("section_layer", outage, StructuredResponses,
                                 SentinelResponse) :
          LET r == section_layer(TextFor(run, PlotKey(c, x)), TextFor(run, IntentKey(c, x)),
                                 all_characters_timeline, response)
          IN IF hit
               THEN /\ l_section_plots' = Append(l_section_plots, cached_section_plot)
                    /\ l_section_intents' = Append(l_section_intents, cached_section_intent)
                    /\ prev_sections' = Append(prev_sections, cached_section_plot)
                    /\ prev_section_intent' = cached_section_intent
                    /\ hits' = hits \cup {PlotKey(c, x), IntentKey(c, x)}
                    /\ store' = made
                    /\ sec_i' = sec_i + 1
                    /\ Goto(next)
                    /\ UNCHANGED <<calls, replies, passed, written>>
             ELSE IF r.err # ""
               THEN /\ calls' = Append(calls, <<"section_layer", c, x, 0>>)
                    /\ passed' = Append(passed, given)
                    /\ replies' = IF r.called THEN Append(replies, response) ELSE replies
                    /\ store' = made
                    /\ Abort(r.err)
                    /\ UNCHANGED <<sectionLocals, sec_i, hits, written>>
             ELSE /\ calls' = Append(calls, <<"section_layer", c, x, 0>>)
                  /\ replies' = Append(replies, response)
                  /\ passed' = Append(passed, given)
                  /\ store' = save_to_file(
                                save_to_file(made, unwritable, r.plot, PlotKey(c, x)),
                                unwritable, r.intent, IntentKey(c, x))
                  /\ written' = written \cup Reached({PlotKey(c, x), IntentKey(c, x)})
                  /\ l_section_plots' = Append(l_section_plots, r.plot)
                  /\ l_section_intents' = Append(l_section_intents, r.intent)
                  /\ prev_sections' = Append(prev_sections, r.plot)
                  /\ prev_section_intent' = r.intent
                  /\ sec_i' = sec_i + 1
                  /\ Goto(next)
                  /\ UNCHANGED hits
  /\ UNCHANGED <<faults, adapter, args, styler, scalars, chapterFields, sectionFields, story_text,
                 ch_i, para_i, section_count, paragraph_count, paragraphLocals, warned>>

\* section_level_causal_chain_validation_filter, the appends to the fields,
\* then the next chapter or the return
validate_sections ==
  /\ pc = "validate_sections"
  /\ \E validation \in FilterVerdicts :
       warned' = (warned \/ ~ContainsOK(validation))
  /\ calls' = Append(calls, <<"section_level_causal_chain_validation_filter", ch_i + 1, 0, 0>>)
  /\ replies' = replies
  /\ section_plots' = Append(section_plots, l_section_plots)
  /\ section_intents' = Append(section_intents, l_section_intents)
  /\ ch_i' = ch_i + 1
  /\ IF ch_i + 1 < Len(chapter_plots) THEN Goto("sections_of_chapter") ELSE Return
  /\ UNCHANGED <<store, faults, adapter, passed,
                 args, styler, scalars, chapterFields, story_text,
                 sec_i, para_i, section_count, paragraph_count, sectionLocals,
                 paragraphLocals, hits, written>>

\* ----------------------------------------------------------- paragraphs
ChapterHeader(c) == <<"header", "Chapter", c, 0, 0>>

SectionHeader(x) == <<"header", "Section", 0, x, 0>>

\* zip(self.chapter_plots, self.section_plots)
ZipLen == IF Len(chapter_plots) <= Len(section_plots) THEN Len(chapter_plots)
          ELSE Len(section_plots)

generate_paragraphs_entry ==
  /\ pc = "generate_paragraphs"
  /\ IF section_plots = <<>> THEN Call("generate_sections", "paragraphs_loop")
     ELSE Goto("paragraphs_loop")
  /\ UNCHANGED <<store, faults, adapter, passed,
                 args, styler, scalars, chapterFields, sectionFields,
                 story_text, indices, sectionLocals, paragraphLocals, warned, calls, replies,
                 hits, written>>

\* story_text = ""; the start of the loop over the chapters
paragraphs_loop ==
  /\ pc = "paragraphs_loop"
  /\ l_story_text' = <<>>
  /\ ch_i' = 0
  /\ sec_i' = 0
  /\ Goto(IF ZipLen > 0 THEN "paragraphs_of_section" ELSE "save_story")
  /\ UNCHANGED <<store, faults, adapter, passed,
                 args, styler, scalars, chapterFields, sectionFields,
                 story_text, para_i, section_count, paragraph_count, sectionLocals,
                 prev_paragraphs, prev_paragraph_intent, warned, calls, replies, hits, written>>

\* the head of one section's iteration: the headers (the chapter's before its
\* first section), the locals and the paragraph count
paragraphs_of_section ==
  /\ pc = "paragraphs_of_section"
  /\ l_story_text' =
       l_story_text \o (IF sec_i = 0 THEN <<ChapterHeader(ch_i + 1)>> ELSE <<>>)
                    \o <<SectionHeader(sec_i + 1)>>
  /\ prev_paragraphs' = <<>>
  /\ prev_paragraph_intent' = NoneText
  /\ paragraph_count' =
       IF resume
         THEN MaxOf(DefaultParagraphCount,
                    Cardinality(existing_paragraphs(store, ch_i + 1, sec_i + 1)))
         ELSE DefaultParagraphCount
  /\ para_i' = 0
  /\ Goto("paragraph_layer")
  /\ UNCHANGED <<store, faults, adapter, passed,
                 args, styler, scalars, chapterFields, sectionFields,
                 story_text, ch_i, sec_i, section_count, sectionLocals, warned, calls, replies,
                 hits, written>>

\* a story assembled from the raw paragraphs
story_item_raw(paragraph, styled_paragraph) == paragraph

\* story_text += f"\n{styled_paragraph}" : what of a paragraph enters the story
story_item(paragraph, styled_paragraph) == styled_paragraph

\* one paragraph of generate_paragraphs: cache or compute, then the style
\* filter, the styled file and the append to the story
paragraph_step ==
  /\ pc = "paragraph_layer"
  /\ LET c == ch_i + 1
         x == sec_i + 1
         q == para_i + 1
         cached_paragraph == read_from_file(store, unreadable, ParagraphKey(c, x, q))
         cached_paragraph_intent ==
           read_from_file(store, unreadable, ParagraphIntentKey(c, x, q))
         hit == resume /\ cached_paragraph # NoneText /\ cached_paragraph_intent # NoneText
         r == paragraph_layer(TextFor(run, ParagraphKey(c, x, q)),
                              TextFor(run, ParagraphIntentKey(c, x, q)), <<>>)
         paragraph == IF hit THEN cached_paragraph ELSE r.paragraph
         paragraph_intent == IF hit THEN cached_paragraph_intent ELSE r.intent
         given == [stage |-> <<"paragraph_layer", c, x, q>>,
                   previous |-> prev_paragraphs,
                   previous_intents |-> <<prev_paragraph_intent>>,
                   parent |-> <<master_plot, backstories, characters,
                                section_plots[c][x]>>,
                   timeline |-> all_characters_timeline,
                   final |-> FALSE]
         generated == IF hit THEN store
                      ELSE save_to_file(
                             save_to_file(store, unwritable, paragraph, ParagraphKey(c, x, q)),
                             unwritable, paragraph_intent, ParagraphIntentKey(c, x, q))
     IN IF ~hit /\ r.err # ""
          THEN /\ calls' = Append(calls, <<"paragraph_layer", c, x, q>>)
               /\ replies' = replies
               /\ passed' = Append(passed, given)
               /\ Abort(r.err)
               /\ UNCHANGED <<store, styler, indices, paragraphLocals, hits, written>>
          ELSE \E mode \in (IF styler = "unset" THEN StyleModes ELSE {styler}) :
                 LET styled_paragraph == style_filter(mode, paragraph) IN
                 /\ styler' = mode
                 /\ replies' = replies
                 /\ passed' = IF hit THEN passed ELSE Append(passed, given)
                 /\ calls' = (IF hit THEN calls
                              ELSE Append(calls, <<"paragraph_layer", c, x, q>>))
                             \o <<<<"style_filter", c, x, q>>>>
                 /\ hits' = IF hit
                              THEN hits \cup {ParagraphKey(c, x, q), ParagraphIntentKey(c, x, q)}
                              ELSE hits
                 /\ store' = save_to_file(generated, unwritable, styled_paragraph,
                                          StyledKey(c, x, q))
                 /\ written' =
                      written \cup Reached({StyledKey(c, x, q)})
                      \cup (IF hit THEN {}
                            ELSE Reached({ParagraphKey(c, x, q), ParagraphIntentKey(c, x, q)}))
                 /\ l_story_text' =
                      Append(l_story_text, story_item(paragraph, styled_paragraph))
                 /\ prev_paragraphs' = Append(prev_paragraphs, paragraph)
                 /\ prev_paragraph_intent' = paragraph_intent
                 /\ UNCHANGED <<section_count, paragraph_count>>
                 /\ IF para_i + 1 < paragraph_count
                      THEN /\ para_i' = para_i + 1
                           /\ UNCHANGED <<ch_i, sec_i>>
                           /\ Goto("paragraph_layer")
                    ELSE IF sec_i + 1 < Len(section_plots[ch_i + 1])
                      THEN /\ para_i' = para_i + 1
                           /\ sec_i' = sec_i + 1
                           /\ UNCHANGED ch_i
                           /\ Goto("paragraphs_of_section")
                    ELSE IF ch_i + 1 < ZipLen
                      THEN /\ para_i' = para_i + 1
                           /\ sec_i' = 0
                           /\ ch_i' = ch_i + 1
                           /\ Goto("paragraphs_of_section")
                    ELSE /\ para_i' = para_i + 1
                         /\ UNCHANGED <<ch_i, sec_i>>
                         /\ Goto("save_story")
  /\ UNCHANGED <<faults, adapter, args, scalars, chapterFields, sectionFields, story_text,
                 sectionLocals, warned>>

\* a generate_paragraphs that returns the story without saving it
save_story_unsaved ==
  /\ pc = "save_story"
  /\ story_text' = l_story_text
  /\ Return
  /\ UNCHANGED <<store, faults, adapter, passed,
                 args, styler, scalars, chapterFields, sectionFields,
                 indices, sectionLocals, paragraphLocals, warned, calls, replies, hits,
                 written>>

\* a generate_paragraphs that appends the story to the complete_story.txt it finds
save_story_appending ==
  /\ pc = "save_story"
  /\ story_text' = l_story_text
  /\ store' = save_to_file(store, unwritable,
                           (IF Exists(store, CompleteStoryKey) THEN store[CompleteStoryKey] ELSE <<>>)
                             \o l_story_text,
                           CompleteStoryKey)
  /\ written' = written \cup Reached({CompleteStoryKey})
  /\ Return
  /\ UNCHANGED <<faults, adapter, passed,
                 args, styler, scalars, chapterFields, sectionFields, indices,
                 sectionLocals, paragraphLocals, warned, calls, replies, hits>>

\* self.story_text = story_text; complete_story.txt; generate_paragraphs returns
save_story ==
  /\ pc = "save_story"
  /\ story_text' = l_story_text
  /\ store' = save_to_file(store, unwritable, l_story_text, CompleteStoryKey)
  /\ written' = written \cup Reached({CompleteStoryKey})
  /\ Return
  /\ UNCHANGED <<faults, adapter, passed,
                 args, styler, scalars, chapterFields, sectionFields, indices,
                 sectionLocals, paragraphLocals, warned, calls, replies, hits>>

\* ------------------------------------------------------- a second run
\* main is invoked again, with --resume, over the store that a first run of
\* the whole pipeline left
SecondRunLayers == {"all"}

\* the read faults under which a second run is explored
SecondRunReadFaults == {{}, {IntentKey(1, 0)}}

restart ==
  /\ pc = "exit"
  /\ run = "run1"
  /\ target = "all"
  /\ unwritable = {}
  /\ unreadable \in SecondRunReadFaults
  /\ outage = {}
  /\ run' = "run2"
  /\ previous' = [chapter_count |-> chapter_count, outcome |-> outcome]
  /\ resume' = TRUE
  /\ chapter_count' \in 0..MaxChapters
  /\ target' \in SecondRunLayers
  /\ master_plot' = EmptyText
  /\ backstories' = EmptyText
  /\ characters' = EmptyText
  /\ chapter_plots' = <<>>
  /\ chapter_intents' = <<>>
  /\ all_characters_timeline' = <<>>
  /\ section_plots' = <<>>
  /\ section_intents' = <<>>
  /\ story_text' = <<>>
  /\ ch_i' = 0 /\ sec_i' = 0 /\ para_i' = 0
  /\ section_count' = 0 /\ paragraph_count' = 0
  /\ l_section_plots' = <<>> /\ l_section_intents' = <<>>
  /\ prev_sections' = <<>> /\ prev_section_intent' = NoneText
  /\ prev_paragraphs' = <<>> /\ prev_paragraph_intent' = NoneText
  /\ l_story_text' = <<>>
  /\ pc' = "generate_until_layer"
  /\ stack' = <<>>
  /\ warned' = FALSE
  /\ calls' = <<>>
  /\ replies' = <<>>
  /\ passed' = <<>>
  /\ hits' = {}
  /\ written' = {}
  /\ outcome' = "running"
  /\ error' = ""
  /\ UNCHANGED <<store, faults, adapter, styler, cli>>

Next ==
  \/ generate_until_layer
  \/ generate_plot
  \/ generate_backstory_entry
  \/ generate_backstory
  \/ generate_characters_entry
  \/ generate_characters
  \/ generate_chapters_entry
  \/ chapters_loop
  \/ chapter_step
  \/ generate_timeline_for_chapter
  \/ validate_chapter
  \/ validate_all_chapters
  \/ generate_sections_entry
  \/ sections_loop
  \/ sections_of_chapter
  \/ section_step
  \/ validate_sections
  \/ generate_paragraphs_entry
  \/ paragraphs_loop
  \/ paragraphs_of_section
  \/ paragraph_step
  \/ save_story
  \/ restart

Spec == Init /\ [][Next]_vars

\* ------------------------------------------------- the generator adapter
\* One call of call_llm, followed attempt by attempt, for every retry budget,
\* either mode and two initial backoffs; the pipeline stands still.
pipeline ==
  <<store, faults, passed, args, styler, scalars, chapterFields, sectionFields,
    story_text, pc, stack, indices, sectionLocals, paragraphLocals, warned, calls,
    replies, hits, written, outcome, error>>

\* 0.5 + random.random(), in halves: the least and a middle value
JitterHalves == {1, 2}

RECURSIVE Pow2(_)
Pow2(n) == IF n <= 0 THEN 1 ELSE 2 * Pow2(n - 1)

\* a budget that is spent one failure early
Exhausted_early(n, budget) == n >= budget

\* if retries > max_retries
Exhausted(n, budget) == n > budget

InitLLM ==
  /\ store = EmptyStore
  /\ unreadable = {} /\ unwritable = {} /\ outage = {} /\ blank = {}
  /\ resume = FALSE /\ chapter_count = 0 /\ target = "plot"
  /\ styler = "unset"
  /\ run = "run1"
  /\ previous = NoRun
  /\ NewGenerator
  /\ NoLocals
  /\ pc = "generate_until_layer"
  /\ stack = <<>>
  /\ warned = FALSE
  /\ calls = <<>>
  /\ replies = <<>>
  /\ passed = <<>>
  /\ hits = {}
  /\ written = {}
  /\ outcome = "running"
  /\ error = ""
  /\ llm_pc = "call_llm"
  /\ json_mode \in BOOLEAN
  /\ max_retries \in 0..MaxRetryBudget
  /\ initial_backoff \in {1, 2}
  /\ retries = 0
  /\ invocations = 0
  /\ sleeps = <<>>
  /\ llm_result = "none"
  /\ MainDone

\* the client is built and the message made; retries = 0
call_llm_entry ==
  /\ llm_pc = "call_llm"
  /\ retries' = 0
  /\ llm_pc' = "while"
  /\ UNCHANGED <<json_mode, max_retries, initial_backoff, invocations, sleeps,
                 llm_result, pipeline>>

\* one iteration of the loop: the service is invoked; its response is
\* returned, or its failure is counted, and then either the sentinel is
\* returned or the call sleeps and loops
call_llm_attempt ==
  /\ llm_pc = "while"
  /\ invocations' = invocations + 1
  /\ \E failed \in BOOLEAN :
       IF ~failed
         THEN /\ llm_result' = "response"
              /\ llm_pc' = "return"
              /\ UNCHANGED <<retries, sleeps>>
       ELSE IF Exhausted(retries + 1, max_retries)
         THEN /\ retries' = retries + 1
              /\ llm_result' = "sentinel"
              /\ llm_pc' = "return"
              /\ UNCHANGED sleeps
       ELSE \E jitter \in JitterHalves :
              /\ retries' = retries + 1
              /\ sleeps' = Append(sleeps, initial_backoff * Pow2(retries) * jitter)
              /\ llm_pc' = "while"
              /\ UNCHANGED llm_result
  /\ UNCHANGED <<json_mode, max_retries, initial_backoff, pipeline>>

NextLLM ==
  \/ call_llm_entry
  \/ call_llm_attempt

SpecLLM == InitLLM /\ [][NextLLM]_vars

\* ------------------------------------------------------------ termination
\* Runs of Spec, runs with empty answers and the calls of SpecLLM under the scheduling of the
\* program: one sequential process, which takes the step it is at (every
\* invocation of the service returns or raises, every sleep ends), so a step
\* of the run under way that stays possible is taken. Whether main is started
\* again after a run has ended is up to the user: no fairness for restart.
LiveRun ==
  /\ target = "all"
  /\ store \in {EmptyStore, FullStore(MaxChapters)}
  /\ unreadable = {} /\ unwritable = {}

\* the whole pipeline from the empty store with the generator answering some
\* of the first three stages with the empty string
BlankRun ==
  /\ store = EmptyStore
  /\ target = "all"
  /\ chapter_count \in 0..MaxChapters
  /\ unreadable = {} /\ unwritable = {} /\ outage = {} /\ blank \in Blanks

InitLive == (Init /\ LiveRun) \/ (BlankRun /\ Started) \/ InitLLM

NextLive ==
  \/ llm_pc = "idle" /\ Next
  \/ NextLLM

SpecLive ==
  /\ InitLive
  /\ [][NextLive]_vars
  /\ WF_vars(llm_pc = "idle" /\ pc # "exit" /\ Next)
  /\ WF_vars(NextLLM)

\* ------------------------------------------------------------------- main
\* main from its first line: the prompt, the layer, the generator object,
\* then the pipeline as above.

\* [l.value for l in Layer], in the order of the enumeration
LayerValues ==
  <<"plot", "backstory", "character", "chapter", "timeline", "section",
    "paragraph", "style", "all">>

\* the values of --layer explored: names of layers, names in other case,
\* names of no layer
LayerArgs == {"all", "ALL", "Plot", "section", "chapters", "", " all"}

\* layer_name.lower()
Lower(layer_name) ==
  IF layer_name = "ALL" THEN "all"
  ELSE IF layer_name = "Plot" THEN "plot"
  ELSE layer_name

InitMain ==
  /\ store \in {EmptyStore, FullStore(MaxChapters)}
  /\ unreadable = {} /\ unwritable = {} /\ outage = {} /\ blank = {}
  /\ resume \in BOOLEAN
  /\ chapter_count = MaxChapters
  /\ target = "none"
  /\ styler = "unset"
  /\ run = "run1"
  /\ previous = NoRun
  /\ NewGenerator
  /\ NoLocals
  /\ pc = "main"
  /\ stack = <<>>
  /\ warned = FALSE
  /\ calls = <<>>
  /\ replies = <<>>
  /\ passed = <<>>
  /\ hits = {}
  /\ written = {}
  /\ outcome = "running"
  /\ error = ""
  /\ NoCall
  /\ layer_arg \in LayerArgs
  /\ prompt_arg \in {"absent", "empty", "given"}
  /\ prompt_file \in {"absent", "readable", "unreadable"}
  /\ user_input = ""
  /\ generator = FALSE
  /\ output_dir = (store # EmptyStore)
  /\ printed = <<>>

\* what the pipeline actions leave alone of the state of main
pipelineState ==
  <<store, faults, adapter, passed, resume, chapter_count, run, previous, styler, scalars,
    chapterFields, sectionFields, story_text, stack, indices, sectionLocals,
    paragraphLocals, warned, calls, replies, hits, written>>

\* main, the prompt: --prompt if given and not empty, else the content of
\* --prompt-file, else the built-in prompt; a prompt file that cannot be read
\* is reported and replaced by the built-in prompt
main_prompt ==
  /\ pc = "main"
  /\ IF prompt_arg = "given"
       THEN user_input' = "prompt" /\ printed' = printed
     ELSE IF prompt_file = "readable"
       THEN user_input' = "file" /\ printed' = printed
     ELSE IF prompt_file = "unreadable"
       THEN /\ user_input' = "default"
            /\ printed' = Append(printed, <<"Error reading prompt file">>)
     ELSE user_input' = "default" /\ printed' = printed
  /\ pc' = "from_string"
  /\ UNCHANGED <<pipelineState, target, outcome, error, layer_arg, prompt_arg, prompt_file,
                 generator, output_dir>>

\* a lookup that takes every unknown name for the whole pipeline
from_string_lenient ==
  /\ pc = "from_string"
  /\ target' = IF Lower(layer_arg) \in Layer THEN Lower(layer_arg) ELSE "all"
  /\ pc' = "StoryGenerator"
  /\ UNCHANGED <<pipelineState, outcome, error, cli>>

\* main, the layer: Layer.from_string; main prints its ValueError and returns
from_string ==
  /\ pc = "from_string"
  /\ IF Lower(layer_arg) \in Layer
       THEN /\ target' = Lower(layer_arg)
            /\ pc' = "StoryGenerator"
            /\ UNCHANGED <<outcome, error, printed>>
       ELSE /\ printed' = Append(printed, <<"Invalid layer", layer_arg, LayerValues>>)
            /\ pc' = "exit"
            /\ outcome' = "error"
            /\ error' = "ValueError"
            /\ UNCHANGED target
  /\ UNCHANGED <<pipelineState, layer_arg, prompt_arg, prompt_file, user_input, generator,
                 output_dir>>

\* StoryGenerator(user_input, chapter_count, resume): the fields, ./output
new_generator ==
  /\ pc = "StoryGenerator"
  /\ generator' = TRUE
  /\ output_dir' = TRUE
  /\ master_plot' = EmptyText
  /\ backstories' = EmptyText
  /\ characters' = EmptyText
  /\ chapter_plots' = <<>>
  /\ chapter_intents' = <<>>
  /\ all_characters_timeline' = <<>>
  /\ section_plots' = <<>>
  /\ section_intents' = <<>>
  /\ story_text' = <<>>
  /\ pc' = "generate_until_layer"
  /\ UNCHANGED <<store, faults, adapter, passed, resume, chapter_count, target, run, previous,
                 styler, stack, indices, sectionLocals, paragraphLocals, warned, calls,
                 replies, hits, written, outcome, error, layer_arg, prompt_arg, prompt_file,
                 user_input, printed>>

NextMain ==
  \/ main_prompt
  \/ from_string
  \/ new_generator
  \/ generate_until_layer
  \/ generate_plot
  \/ generate_backstory_entry
  \/ generate_backstory
  \/ generate_characters_entry
  \/ generate_characters
  \/ generate_chapters_entry
  \/ chapters_loop
  \/ chapter_step
  \/ generate_timeline_for_chapter
  \/ validate_chapter
  \/ validate_all_chapters
  \/ generate_sections_entry
  \/ sections_loop
  \/ sections_of_chapter
  \/ section_step
  \/ validate_sections
  \/ generate_paragraphs_entry
  \/ paragraphs_loop
  \/ paragraphs_of_section
  \/ paragraph_step
  \/ save_story

SpecMain == InitMain /\ [][NextMain]_vars

TypeOK ==
  /\ pc \in {"generate_until_layer", "generate_plot", "generate_backstory",
             "backstory_layer", "generate_characters", "character_layer",
             "generate_chapters", "chapters_loop", "chapter_layer", "timeline_layer",
             "validate_chapter", "validate_all_chapters", "generate_sections",
             "sections_loop", "sections_of_chapter", "section_layer",
             "validate_sections", "generate_paragraphs", "paragraphs_loop",
             "paragraphs_of_section", "paragraph_layer", "save_story", "exit"}
  /\ outcome \in {"running", "completed", "error"}
  /\ (pc = "exit") = (outcome # "running")

\* ------------------------------------------------------------ the claims
\* the files of keys exist in the store
Persisted(keys) == keys \subseteq DOMAIN store

\* ... and every one of them can be read
Readable(keys) == keys \subseteq DOMAIN store /\ keys \cap unreadable = {}

\* The step of a resume run at an output whose artifacts satisfy P: the
\* owning stage function is not invoked and the value taken into memory is the
\* content of the files.
CacheHit(P(_)) ==
  resume =>
    /\ pc = "generate_plot" /\ P({MasterPlotKey})
         => calls' = calls /\ master_plot' = store[MasterPlotKey]
    /\ pc = "backstory_layer" /\ P({BackstoryKey})
         => calls' = calls /\ backstories' = store[BackstoryKey]
    /\ pc = "character_layer" /\ P({CharacterKey})
         => calls' = calls /\ characters' = store[CharacterKey]
    /\ pc = "chapter_layer" /\ P({PlotKey(ch_i + 1, 0), IntentKey(ch_i + 1, 0)})
         => /\ calls' = calls
            /\ chapter_plots' = Append(chapter_plots, store[PlotKey(ch_i + 1, 0)])
            /\ chapter_intents' = Append(chapter_intents, store[IntentKey(ch_i + 1, 0)])
    /\ pc = "timeline_layer" /\ P({TimelineKey(ch_i + 1)})
         => /\ calls' = calls
            /\ Len(all_characters_timeline') > ch_i
            /\ all_characters_timeline'[ch_i + 1] = store[TimelineKey(ch_i + 1)]
    /\ pc = "section_layer" /\ P({PlotKey(ch_i + 1, sec_i + 1), IntentKey(ch_i + 1, sec_i + 1)})
         => /\ calls' = calls
            /\ l_section_plots' =
                 Append(l_section_plots, store[PlotKey(ch_i + 1, sec_i + 1)])
            /\ l_section_intents' =
                 Append(l_section_intents, store[IntentKey(ch_i + 1, sec_i + 1)])
    /\ pc = "paragraph_layer"
       /\ P({ParagraphKey(ch_i + 1, sec_i + 1, para_i + 1),
             ParagraphIntentKey(ch_i + 1, sec_i + 1, para_i + 1)})
         => /\ calls' = Append(calls, <<"style_filter", ch_i + 1, sec_i + 1, para_i + 1>>)
            /\ prev_paragraphs' =
                 Append(prev_paragraphs, store[ParagraphKey(ch_i + 1, sec_i + 1, para_i + 1)])
            /\ prev_paragraph_intent' =
                 store[ParagraphIntentKey(ch_i + 1, sec_i + 1, para_i + 1)]

\* C1 as stated: in a resume run, whenever the artifacts of a stage output
\* exist in the store, the owning stage function is not invoked for that
\* output and the value held in memory equals the persisted content.
C1_CacheHitWheneverPresent == [][CacheHit(Persisted)]_vars

\* C1, amended: in a resume run, whenever the artifacts of a stage output exist
\* in the store and can be read, the owning stage function is not invoked for
\* that output, whatever the generator would return, and the value held in
\* memory equals the persisted content (entry i of the timeline equals the
\* content of chapter i's timeline file). An artifact whose read fails counts
\* as absent.
C1_CacheHitWhenReadable == [][CacheHit(Readable)]_vars

StageFunctions ==
  {"plot_layer", "backstory_layer", "character_layer", "chapter_layer",
   "timeline_layer", "section_layer", "paragraph_layer"}

StageCalls == {i \in 1..Len(calls) : calls[i][1] \in StageFunctions}

\* a resume run over a complete store ended without one stage call, holding
\* the old content of every kind of output
C1_Witness ==
  /\ resume /\ run = "run1" /\ pc = "exit" /\ outcome = "completed"
  /\ StageCalls = {}
  /\ {MasterPlotKey, BackstoryKey, CharacterKey, PlotKey(1, 0), IntentKey(1, 0),
      TimelineKey(1), PlotKey(1, 1), ParagraphKey(1, 1, 1)} \subseteq hits
  /\ master_plot = TextFor("old", MasterPlotKey)
  /\ chapter_plots[1] = TextFor("old", PlotKey(1, 0))
  /\ all_characters_timeline[1] = store[TimelineKey(1)]
  /\ section_plots[1][1] = TextFor("old", PlotKey(1, 1))

\* the artifacts of an output are not all there, or resume is not requested
Miss(keys) == ~resume \/ ~(keys \subseteq DOMAIN store)

\* the file of key k holds value v after the step, if its write can succeed
Saved(k, v) == k \notin unwritable => k \in DOMAIN store' /\ store'[k] = v

\* the stage call, if any, that the step adds to the log is a new one
InvokedOnce ==
  Len(calls') > Len(calls) /\ calls'[Len(calls) + 1][1] \in StageFunctions
    => \A i \in 1..Len(calls) : calls[i] # calls'[Len(calls) + 1]

CacheMiss ==
  /\ pc = "generate_plot" /\ Miss({MasterPlotKey})
       => /\ calls' = Append(calls, <<"plot_layer", 0, 0, 0>>)
          /\ Saved(MasterPlotKey, master_plot')
  /\ pc = "backstory_layer" /\ Miss({BackstoryKey})
       => /\ calls' = Append(calls, <<"backstory_layer", 0, 0, 0>>)
          /\ Saved(BackstoryKey, backstories')
  /\ pc = "character_layer" /\ Miss({CharacterKey})
       => /\ calls' = Append(calls, <<"character_layer", 0, 0, 0>>)
          /\ Saved(CharacterKey, characters')
  /\ pc = "chapter_layer" /\ Miss({PlotKey(ch_i + 1, 0), IntentKey(ch_i + 1, 0)})
       => /\ calls' = Append(calls, <<"chapter_layer", ch_i + 1, 0, 0>>)
          /\ outcome' # "error"
               => /\ Len(chapter_plots') = ch_i + 1
                  /\ Saved(PlotKey(ch_i + 1, 0), chapter_plots'[ch_i + 1])
                  /\ Saved(IntentKey(ch_i + 1, 0), chapter_intents'[ch_i + 1])
  /\ pc = "timeline_layer" /\ Miss({TimelineKey(ch_i + 1)})
       => /\ calls' = Append(calls, <<"timeline_layer", ch_i + 1, 0, 0>>)
          /\ outcome' # "error"
               => /\ Len(all_characters_timeline') = ch_i + 1
                  /\ Saved(TimelineKey(ch_i + 1), all_characters_timeline'[ch_i + 1])
  /\ pc = "section_layer"
     /\ Miss({PlotKey(ch_i + 1, sec_i + 1), IntentKey(ch_i + 1, sec_i + 1)})
       => /\ calls' = Append(calls, <<"section_layer", ch_i + 1, sec_i + 1, 0>>)
          /\ outcome' # "error"
               => /\ Len(l_section_plots') = sec_i + 1
                  /\ Saved(PlotKey(ch_i + 1, sec_i + 1), l_section_plots'[sec_i + 1])
                  /\ Saved(IntentKey(ch_i + 1, sec_i + 1), l_section_intents'[sec_i + 1])
  /\ pc = "paragraph_layer"
     /\ Miss({ParagraphKey(ch_i + 1, sec_i + 1, para_i + 1),
              ParagraphIntentKey(ch_i + 1, sec_i + 1, para_i + 1)})
       => /\ Len(calls') > Len(calls)
          /\ calls'[Len(calls) + 1] = <<"paragraph_layer", ch_i + 1, sec_i + 1, para_i + 1>>
          /\ outcome' # "error"
               => /\ Len(prev_paragraphs') = para_i + 1
                  /\ Saved(ParagraphKey(ch_i + 1, sec_i + 1, para_i + 1),
                           prev_paragraphs'[para_i + 1])
                  /\ Saved(ParagraphIntentKey(ch_i + 1, sec_i + 1, para_i + 1),
                           prev_paragraph_intent')

\* C2: at every stage output a run reaches whose artifacts are absent, and at
\* every stage output of a run without resume, the owning stage function is
\* invoked, once for that output, and what it returns is in the file of the
\* output's key, unless that write fails, when the step ends (before any later
\* stage function is invoked).
C2_CacheMiss == [][CacheMiss /\ InvokedOnce]_vars

\* a run without resume over a complete store rewrote the master plot, a
\* chapter, its timeline and a section, and stopped in the paragraph stage
C2_Witness ==
  /\ ~resume /\ run = "run1" /\ pc = "exit"
  /\ {ParagraphKey(1, 1, 1), MasterPlotKey, PlotKey(1, 0), PlotKey(1, 1)} \subseteq DOMAIN store
  /\ calls # <<>>
  /\ store[MasterPlotKey] = TextFor("run1", MasterPlotKey)
  /\ store[PlotKey(1, 0)] = TextFor("run1", PlotKey(1, 0))
  /\ TimelineKey(1) \in written
  /\ store[PlotKey(1, 1)] = TextFor("run1", PlotKey(1, 1))
  /\ calls[Len(calls)] = <<"paragraph_layer", 1, 1, 1>>

\* a structured response the Chapter and Section stages cannot use: not JSON,
\* not an object, or without a non-empty plot or intent
ParseError(response) ==
  LET data == JsonLoads(response) IN
  \/ ~data.ok
  \/ ~IsDict(data.val)
  \/ ~Truthy(Get(data.val, "p"))
  \/ ~Truthy(Get(data.val, "i"))

\* the step consumed a generator response
Replied == Len(replies') = Len(replies) + 1

\* the files of a store, without its directories
Files(st) == [k \in {j \in DOMAIN st : j[1] # "sec_"} |-> st[k]]

\* the step of a Chapter or Section stage whose response cannot be parsed
\* ends the run with an error
StageErrorAborts ==
  pc \in {"chapter_layer", "section_layer"} /\ Replied
    /\ ParseError(replies'[Len(replies')])
    => outcome' = "error"

\* the step that ends the run with an error: the failing stage call is the
\* last entry of the log, no file changes, the error is what main reports
AbortStep ==
  outcome = "running" /\ outcome' = "error"
    => /\ pc \in {"chapter_layer", "section_layer", "paragraph_layer"}
       /\ pc' = "exit" /\ stack' = <<>>
       /\ error' \in {"ValueError", "AttributeError"}
       /\ Len(calls') = Len(calls) + 1
       /\ SubSeq(calls', 1, Len(calls)) = calls
       /\ calls'[Len(calls')][1] \in {"chapter_layer", "section_layer", "paragraph_layer"}
       /\ written' = written
       /\ Files(store') = Files(store)
       /\ CompleteStoryKey \notin written'

\* once the run has ended with an error, it takes no further step: what
\* follows is another invocation of main
AfterAbort == outcome = "error" => run' # run

\* C3: when the Chapter, Section or Paragraph stage raises while computing an
\* output, the run ends there: no further stage function or filter is
\* invoked, no artifact is written (nothing for the failing output, no
\* complete_story.txt), every file keeps its content, and main reports the
\* error instead of the completion.
C3_AbortOnStageError == [][StageErrorAborts /\ AbortStep /\ AfterAbort]_vars

\* a fresh run wrote the first section, then ended on an unparsable response
\* for the second
C3_Witness ==
  /\ run = "run1" /\ outcome = "error" /\ error = "ValueError" /\ pc = "exit"
  /\ calls # <<>> /\ calls[Len(calls)] = <<"section_layer", 1, 2, 0>>
  /\ replies[Len(replies)] = <<"x">>
  /\ PlotKey(1, 1) \in written
  /\ PlotKey(1, 2) \notin DOMAIN store
  /\ CompleteStoryKey \notin DOMAIN store

\* the files that hold the output a stage call computes
OutputKeys(call) ==
  IF call[1] = "plot_layer" THEN {MasterPlotKey}
  ELSE IF call[1] = "backstory_layer" THEN {BackstoryKey}
  ELSE IF call[1] = "character_layer" THEN {CharacterKey}
  ELSE IF call[1] = "timeline_layer" THEN {TimelineKey(call[2])}
  ELSE IF call[1] \in {"chapter_layer", "section_layer"}
    THEN {PlotKey(call[2], call[3]), IntentKey(call[2], call[3])}
  ELSE {ParagraphKey(call[2], call[3], call[4]),
        ParagraphIntentKey(call[2], call[3], call[4])}

\* the output that the file of key k is part of (no output for the styled
\* paragraphs, the story and the directories)
OutputOf(k) ==
  IF k[1] \in {"master_plot.txt", "backstory.txt", "character.txt", "_timeline.txt"}
    THEN {k}
  ELSE IF k[1] \in {"_plot.txt", "_intent.txt"}
    THEN {PlotKey(k[2], k[3]), IntentKey(k[2], k[3])}
  ELSE IF k[1] \in {"NNN.txt", "NNN_intent.txt"}
    THEN {ParagraphKey(k[2], k[3], k[4]), ParagraphIntentKey(k[2], k[3], k[4])}
  ELSE {}

\* a resume run that follows a run which ended with an error, same chapter count
ResumedAfterAbort ==
  /\ run = "run2" /\ resume
  /\ previous.outcome = "error"
  /\ previous.chapter_count = chapter_count

\* In such a run, with P saying which outputs count as persisted: a stage
\* function is invoked only for an output that is not persisted, a persisted
\* output is taken into memory as it is and its files keep their content, and
\* a run that ends without an error has written complete_story.txt.
ResumeStep(P(_)) ==
  ResumedAfterAbort =>
    /\ \A i \in (Len(calls) + 1)..Len(calls') :
         calls'[i][1] \in StageFunctions => ~P(OutputKeys(calls'[i]))
    /\ CacheHit(P)
    /\ \A k \in DOMAIN store :
         OutputOf(k) # {} /\ P(OutputOf(k)) => k \in DOMAIN store' /\ store'[k] = store[k]
    /\ outcome' = "completed"
         => /\ CompleteStoryKey \in written'
            /\ CompleteStoryKey \in DOMAIN store'
            /\ store'[CompleteStoryKey] = story_text'

\* C4 as stated: after a run that aborted, a resume run with the same chapter
\* count invokes stage functions only for outputs whose artifacts are not in
\* the store, reuses every persisted output with unchanged content and, if no
\* further error occurs, reaches complete_story.txt.
C4_ResumeReusesWhatIsPresent == [][ResumeStep(Persisted)]_vars

\* C4, amended: after a run that aborted, a resume run with the same chapter
\* count invokes stage functions only for outputs whose artifacts are missing
\* or cannot be read, reuses every persisted output that can be read, with
\* unchanged content, and, if no further error occurs, reaches
\* complete_story.txt.
C4_ResumeReusesWhatIsReadable == [][ResumeStep(Readable)]_vars

\* a resume run after an abort in chapter 1 recomputed that chapter, reused the
\* rest and wrote the story
C4_Witness ==
  /\ ResumedAfterAbort /\ outcome = "completed" /\ chapter_count = MaxChapters
  /\ \E i \in StageCalls : calls[i] = <<"chapter_layer", 1, 0, 0>>
  /\ \A i \in StageCalls : calls[i] = <<"chapter_layer", 1, 0, 0>>
  /\ {MasterPlotKey, TimelineKey(1), PlotKey(1, 1), ParagraphKey(1, 1, 1)} \subseteq hits
  /\ CompleteStoryKey \in written
  /\ store[PlotKey(1, 0)] = TextFor("run2", PlotKey(1, 0))
  /\ store[PlotKey(1, 1)] = TextFor("old", PlotKey(1, 1))

\* the section directories under chapter c, the paragraph texts under section
\* x of chapter c
SectionDirs(c) == {k \in DOMAIN store : k[1] = "sec_" /\ k[2] = c}

ParagraphTexts(c, x) == {k \in DOMAIN store : k[1] = "NNN.txt" /\ k[2] = c /\ k[3] = x}

AtLeast(default, n) == IF n > default THEN n ELSE default

\* C5: in a resume run the number of sections processed for a chapter is
\* max(3, number of section directories persisted under the chapter) and the
\* number of paragraphs processed for a section is max(5, number of paragraph
\* texts persisted under the section); without resume the numbers are 3 and
\* 5 whatever the store contains. (The counts are those found when the
\* chapter's, the section's, loop starts; the loops then run exactly that far.)
C5_ChildCountDiscovery ==
  /\ pc = "section_layer" /\ sec_i = 0
       => section_count =
            IF resume THEN AtLeast(3, Cardinality(SectionDirs(ch_i + 1))) ELSE 3
  /\ pc = "section_layer" => sec_i < section_count /\ Len(l_section_plots) = sec_i
  /\ pc = "validate_sections"
       => sec_i = section_count /\ Len(l_section_plots) = section_count
  /\ pc = "paragraph_layer" /\ para_i = 0
       => paragraph_count =
            IF resume
              THEN AtLeast(5, Cardinality(ParagraphTexts(ch_i + 1, sec_i + 1)))
              ELSE 5
  /\ pc = "paragraph_layer" => para_i < paragraph_count /\ Len(prev_paragraphs) = para_i
  /\ pc \in {"paragraphs_of_section", "save_story"}
       => Len(prev_paragraphs) = paragraph_count

\* a resume run found four section directories and six paragraph texts, and
\* processed four sections of chapter 1 and six paragraphs of its first section
C5_Witness ==
  /\ resume /\ pc = "paragraphs_of_section" /\ ch_i = 0 /\ sec_i = 1
  /\ Cardinality(SectionDirs(1)) = 4
  /\ Len(section_plots[1]) = 4
  /\ Cardinality(ParagraphTexts(1, 1)) = 6
  /\ paragraph_count = 6 /\ Len(prev_paragraphs) = 6

\* C6: in a resume run, every section index that has a persisted directory
\* under a chapter, and every paragraph index that has a persisted text under
\* a section, lies inside the range of indices the run processes, whether the
\* persisted indices are contiguous or not.
C6_NoTruncationOnResume ==
  resume =>
    /\ pc = "section_layer"
         => \A k \in SectionDirs(ch_i + 1) : k[3] <= section_count
    /\ pc = "paragraph_layer"
         => \A k \in ParagraphTexts(ch_i + 1, sec_i + 1) : k[4] <= paragraph_count

\* a resume run processes four sections of a chapter whose persisted section
\* directories are 1, 2, 3 and 5
C6_Witness ==
  /\ resume /\ pc = "validate_sections" /\ ch_i = 0
  /\ section_count = 4
  /\ SectionDir(1, 5) \in DOMAIN store
  /\ PlotKey(1, 5) \notin hits

\* snapshot v maps character ch and timestamp ts to an event
HasEvent(v, ch, ts) ==
  /\ IsDict(v)
  /\ ch \in DOMAIN v.obj
  /\ IsDict(v.obj[ch])
  /\ ts \in DOMAIN v.obj[ch].obj

\* C7: in every state, for every i with i+1 < len(timeline), every
\* (character, timestamp) -> event pair of timeline[i] is in timeline[i+1]
\* with the same event text, whatever the generator answered to the Timeline
\* stage and whatever was loaded from the store.
C7_TimelineMonotone ==
  \A i \in 1..(Len(all_characters_timeline) - 1) :
    \A ch \in KeyLexemes, ts \in KeyLexemes :
      HasEvent(all_characters_timeline[i], ch, ts)
        => /\ HasEvent(all_characters_timeline[i + 1], ch, ts)
           /\ all_characters_timeline[i + 1].obj[ch].obj[ts] =
                all_characters_timeline[i].obj[ch].obj[ts]

\* chapter 1's snapshot holds an event and chapter 2's, computed from a
\* response without JSON, is the empty mapping
C7_Witness ==
  /\ Len(all_characters_timeline) = 2
  /\ HasEvent(all_characters_timeline[1], "p", "p")
  /\ all_characters_timeline[2] = EmptyDict
  /\ calls # <<>> /\ calls[Len(calls)] = <<"timeline_layer", 2, 0, 0>>
  /\ replies[Len(replies)] = <<"x">>

\* responses to the Timeline stage that hold no JSON value: plain text (as
\* the adapter's error text is), and text whose braces enclose no JSON
NoJsonResponses == {<<"x">>, <<"x", "{", "x", "}", "x">>}

\* the step in which the Timeline stage is invoked for the current chapter
TimelineInvoked ==
  pc = "timeline_layer" /\ ~(resume /\ Readable({TimelineKey(ch_i + 1)}))

\* C8: whatever the generator answers, the Timeline stage returns normally
\* with the prior sequence extended by exactly one snapshot, the empty mapping
\* when the response cannot be parsed, and the run goes on with the next step
\* of the chapter loop.
C8_TimelineNeverRaises ==
  [][TimelineInvoked =>
       /\ Replied
       /\ outcome' = "running" /\ pc' = "validate_chapter"
       /\ Len(all_characters_timeline') = Len(all_characters_timeline) + 1
       /\ SubSeq(all_characters_timeline', 1, Len(all_characters_timeline)) =
            all_characters_timeline
       /\ LET response == replies'[Len(replies')]
              json == JsonLoads(extract_json_from_response(response))
              snapshot == all_characters_timeline'[Len(all_characters_timeline')]
          IN /\ ~json.ok => snapshot = EmptyDict
             /\ json.ok => snapshot = json.val
             /\ response \in NoJsonResponses => snapshot = EmptyDict]_vars

\* the Timeline stage was answered with braces around text that is no JSON,
\* appended the empty mapping after chapter 1's snapshot, and the run is at
\* the chapter's validation
C8_Witness ==
  /\ pc = "validate_chapter" /\ outcome = "running" /\ ch_i = 1
  /\ replies # <<>> /\ replies[Len(replies)] = <<"x", "{", "x", "}", "x">>
  /\ ~JsonLoads(extract_json_from_response(replies[Len(replies)])).ok
  /\ Len(all_characters_timeline) = 2
  /\ all_characters_timeline[2] = EmptyDict
  /\ TimelineKey(2) \in written

\* where a method that returns goes to
Caller == IF stack = <<>> THEN "exit" ELSE Head(stack)

\* what a validation step does whatever its filter answers: it logs the
\* filter call and goes on; it touches no file, no stage output and no reply
ValidationPasses ==
  /\ outcome' # "error"
  /\ store' = store /\ written' = written /\ hits' = hits /\ replies' = replies
  /\ scalars' = scalars /\ chapterFields' = chapterFields /\ story_text' = story_text
  /\ pc = "validate_chapter"
       => /\ calls' = Append(calls, <<"backstory_consistency_validation_filter",
                                      ch_i + 1, 0, 0>>)
          /\ pc' = IF ch_i + 1 < chapter_count THEN "chapter_layer"
                   ELSE "validate_all_chapters"
          /\ sectionFields' = sectionFields
  /\ pc = "validate_all_chapters"
       => /\ calls' = Append(calls, <<"chapter_level_causal_chain_validation_filter",
                                      0, 0, 0>>)
          /\ pc' = Caller
          /\ sectionFields' = sectionFields
  /\ pc = "validate_sections"
       => /\ calls' = Append(calls, <<"section_level_causal_chain_validation_filter",
                                      ch_i + 1, 0, 0>>)
          /\ pc' = IF ch_i + 1 < Len(chapter_plots) THEN "sections_of_chapter" ELSE Caller
          /\ section_plots' = Append(section_plots, l_section_plots)
          /\ section_intents' = Append(section_intents, l_section_intents)

ValidationPoints == {"validate_chapter", "validate_all_chapters", "validate_sections"}

\* C9: what the validation filters answer changes nothing but the warning:
\* after OK and after INCONSISTENT alike a validation step leads to the same
\* next step with the same stage outputs, files and log, no other step writes
\* the warning, and a run that completes the paragraph stage has written the
\* story it assembled, warned or not.
C9_ValidationNeverBlocks ==
  [][/\ pc \in ValidationPoints => ValidationPasses
     /\ warned' # warned => pc \in ValidationPoints \/ run' # run
     /\ outcome' = "completed" /\ target \in {"paragraph", "style", "all"}
        /\ CompleteStoryKey \notin unwritable
          => /\ CompleteStoryKey \in DOMAIN store'
             /\ store'[CompleteStoryKey] = story_text']_vars

\* a run in which a filter answered INCONSISTENT invoked all three filters
\* and completed with complete_story.txt written
C9_Witness ==
  /\ warned /\ run = "run1" /\ outcome = "completed" /\ target = "all"
  /\ chapter_count = MaxChapters
  /\ \E i \in 1..Len(calls) : calls[i][1] = "backstory_consistency_validation_filter"
  /\ \E i \in 1..Len(calls) : calls[i][1] = "chapter_level_causal_chain_validation_filter"
  /\ \E i \in 1..Len(calls) : calls[i][1] = "section_level_causal_chain_validation_filter"
  /\ CompleteStoryKey \in written
  /\ store[CompleteStoryKey] = story_text
  /\ Len(story_text) > 0

\* a response is well formed: free text, a JSON object with a non-empty plot
\* and intent, or (for the Timeline stage) a JSON object that maps at least
\* one character to an object, alone or inside a code fence; the error
\* sentinel of a failed generator call is no response of the generator
WellFormed(response) ==
  /\ response \notin {SentinelText, SentinelResponse}
  /\ \/ response[1] \in {"run1", "run2"}
     \/ ~ParseError(response)
     \/ LET json == JsonLoads(extract_json_from_response(response)) IN
          /\ json.ok /\ IsDict(json.val)
          /\ DOMAIN json.val.obj # {}
          /\ \A ch \in DOMAIN json.val.obj : IsDict(json.val.obj[ch])

\* a run without resume of the whole pipeline, every response so far well
\* formed, every write possible, the style filter the identity
FreshWellFormedRun ==
  /\ run = "run1" /\ ~resume /\ target = "all"
  /\ unwritable = {}
  /\ styler \in {"unset", "identity"}
  /\ \A i \in 1..Len(replies) : WellFormed(replies[i])

\* the items of a story of n chapters: per chapter its header, then per
\* section its header and its paragraph bodies
StoryItems == 1 + DefaultSectionCount * (1 + DefaultParagraphCount)

WellNested(story, n) ==
  /\ Len(story) = n * StoryItems
  /\ \A j \in 1..Len(story) :
       LET c == ((j - 1) \div StoryItems) + 1
           offset == (j - 1) % StoryItems
           x == ((offset - 1) \div (1 + DefaultParagraphCount)) + 1
           q == (offset - 1) % (1 + DefaultParagraphCount)
       IN IF offset = 0 THEN story[j] = ChapterHeader(c)
          ELSE IF q = 0 THEN story[j] = SectionHeader(x)
          ELSE /\ story[j][1] # "header"
               /\ <<story[j][3], story[j][4], story[j][5]>> = <<c, x, q>>

\* C10: a fresh run of the whole pipeline with chapterCount = N, well-formed
\* responses for every call and an identity style filter completes and writes
\* complete_story.txt with exactly N chapter headers, 3 section headers per
\* chapter and 5 paragraph bodies per section, nested in document order.
C10_EndToEndStructure ==
  FreshWellFormedRun /\ pc = "exit"
    => /\ outcome = "completed"
       /\ CompleteStoryKey \in DOMAIN store
       /\ WellNested(store[CompleteStoryKey], chapter_count)

\* a fresh one-chapter run with well-formed responses ended with the error
\* raised by the first call of the Paragraph stage, no story written
C10_Witness ==
  /\ FreshWellFormedRun /\ pc = "exit" /\ chapter_count = 1
  /\ outcome = "error" /\ error = "ValueError"
  /\ calls # <<>> /\ calls[Len(calls)] = <<"paragraph_layer", 1, 1, 1>>
  /\ Len(section_plots) = 1 /\ Len(section_plots[1]) = DefaultSectionCount
  /\ CompleteStoryKey \notin DOMAIN store

\* the paragraph bodies of a story, in the order they were appended
Bodies(story) == SelectSeq(story, LAMBDA t : t[1] # "header")

\* <<c, x, q>> comes before <<d, y, r>> in document order
Before(a, b) ==
  \/ a[1] < b[1]
  \/ a[1] = b[1] /\ a[2] < b[2]
  \/ a[1] = b[1] /\ a[2] = b[2] /\ a[3] < b[3]

Position(t) == <<t[3], t[4], t[5]>>

\* the raw text of paragraph q of section x of chapter c, as this run took it
Raw(c, x, q) == store[ParagraphKey(c, x, q)]

\* every body of the story is the style filter's output for the raw text of
\* the paragraph at its position, and the bodies are in document order
StyledInOrder(story) ==
  LET b == Bodies(story) IN
  /\ \A j \in 1..Len(b) :
       /\ ParagraphKey(b[j][3], b[j][4], b[j][5]) \in DOMAIN store
       /\ b[j] = style_filter(styler, Raw(b[j][3], b[j][4], b[j][5]))
  /\ \A i, j \in 1..Len(b) : i < j => Before(Position(b[i]), Position(b[j]))

\* the context of the Paragraph stage is the raw text of the paragraphs before
RawContext(context, c, x, q) ==
  /\ Len(context) = q - 1
  /\ \A j \in 1..(q - 1) :
       /\ ParagraphKey(c, x, j) \in DOMAIN store
       /\ context[j] = Raw(c, x, j)
       /\ context[j][2] = "NNN.txt"

\* every paragraph of every section of every chapter is in the story
AllParagraphsIn(story) ==
  /\ Len(section_plots) = chapter_count
  /\ \A c \in 1..chapter_count : \A x \in 1..Len(section_plots[c]) :
       \A q \in 1..DefaultParagraphCount :
         \E j \in 1..Len(story) :
           story[j][1] # "header" /\ Position(story[j]) = <<c, x, q>>

\* C11: the story holds, for every paragraph, the style filter's output and
\* not the raw text, in chapter/section/paragraph order; the context handed
\* to the next Paragraph stage call holds the raw paragraphs; and
\* complete_story.txt is written only once every paragraph of every section
\* of every chapter is in the story.
C11_StyledStoryRawContext ==
  /\ StyledInOrder(l_story_text)
  /\ pc = "paragraph_layer" => RawContext(prev_paragraphs, ch_i + 1, sec_i + 1, para_i + 1)
  /\ \A i \in 1..Len(passed) :
       passed[i].stage[1] = "paragraph_layer"
         => RawContext(passed[i].previous, passed[i].stage[2], passed[i].stage[3],
                       passed[i].stage[4])
  /\ CompleteStoryKey \in written
       => /\ store[CompleteStoryKey] = l_story_text
          /\ story_text = l_story_text
          /\ StyledInOrder(story_text)
          /\ AllParagraphsIn(story_text)

\* a run whose style filter rewrites ended with the story written: its bodies
\* are the rewritten texts while the context of the last section is raw
C11_Witness ==
  /\ pc = "exit" /\ outcome = "completed" /\ chapter_count = MaxChapters
  /\ styler = "restyle"
  /\ CompleteStoryKey \in written
  /\ Len(Bodies(story_text)) >= MaxChapters * DefaultSectionCount * DefaultParagraphCount
  /\ \A j \in 1..Len(Bodies(story_text)) : Bodies(story_text)[j][2] = "styled"
  /\ Len(prev_paragraphs) = DefaultParagraphCount
  /\ \A j \in 1..Len(prev_paragraphs) : prev_paragraphs[j][2] = "NNN.txt"

\* this step is a call of the stage function named, logged with its arguments
StageCallStep(stage) ==
  /\ Len(passed') = Len(passed) + 1
  /\ passed'[Len(passed')].stage[1] = stage

\* the response holds a non-empty plot, whatever it holds as intent
HasPlot(response) ==
  LET data == JsonLoads(response) IN
  data.ok /\ IsDict(data.val) /\ Truthy(Get(data.val, "p"))

\* C12: a call of the Chapter stage with is_final_chapter = true returns the
\* terminal intent as the chapter intent whatever the response holds in its
\* chapter_intent field, an absent or an empty value included (the response
\* being an object with a non-empty chapter_plot).
C12_FinalChapterIntent ==
  [][(/\ StageCallStep("chapter_layer")
      /\ passed'[Len(passed')].final
      /\ Len(replies') = Len(replies) + 1
      /\ HasPlot(replies'[Len(replies')]))
       => /\ outcome' = "running"
          /\ Len(chapter_intents') = ch_i + 1
          /\ chapter_intents'[ch_i + 1] = TerminalIntent]_vars

\* the final chapter's call got a response with a plot and an empty or absent
\* intent, and the run ended with the ValueError of chapter_layer
C12_Witness ==
  /\ pc = "exit" /\ outcome = "error" /\ error = "ValueError"
  /\ passed # <<>> /\ passed[Len(passed)].stage = <<"chapter_layer", chapter_count, 0, 0>>
  /\ passed[Len(passed)].final
  /\ replies # <<>> /\ HasPlot(replies[Len(replies)])
  /\ ~Truthy(Get(JsonLoads(replies[Len(replies)]).val, "i"))
  /\ Len(chapter_intents) = chapter_count - 1

\* the positions in the log of the calls of a stage function
CallsOf(stage) == {i \in 1..Len(passed) : passed[i].stage[1] = stage}

\* C13: in a run the Chapter stage is invoked at most chapter_count times,
\* only for the chapters 1..chapter_count (indices 0..chapter_count-1), at
\* most once for each, and with is_final_chapter = true exactly when the
\* chapter is the last one.
C13_FinalChapterSignalling ==
  /\ Cardinality(CallsOf("chapter_layer")) <= chapter_count
  /\ \A i \in CallsOf("chapter_layer") :
       /\ passed[i].stage[2] \in 1..chapter_count
       /\ passed[i].final = (passed[i].stage[2] = chapter_count)
       /\ \A j \in CallsOf("chapter_layer") :
            passed[i].stage[2] = passed[j].stage[2] => i = j

\* a run of the largest chapter count invoked the Chapter stage for every
\* chapter, the last call flagged final and no other
C13_Witness ==
  /\ chapter_count = MaxChapters
  /\ Cardinality(CallsOf("chapter_layer")) = MaxChapters
  /\ \E i \in CallsOf("chapter_layer") : passed[i].final
  /\ \E i \in CallsOf("chapter_layer") : ~passed[i].final

\* the text is the record of the file at position <<c, x, q>>
Tagged(t, file, c, x, q) == <<t[2], t[3], t[4], t[5]>> = <<file, c, x, q>>

\* the context sequence holds the records 1..n-1 of the parent, in order
Siblings(context, n, file, c, x, atChapter, atSection) ==
  /\ Len(context) = n - 1
  /\ \A j \in 1..(n - 1) :
       Tagged(context[j], file,
              IF atChapter THEN j ELSE c,
              IF atChapter THEN 0 ELSE IF atSection THEN j ELSE x,
              IF atChapter \/ atSection THEN 0 ELSE j)

\* what a logged call received as prior-sibling context is exactly the
\* records before its index
ContextExact(call) ==
  LET c == call.stage[2]
      x == call.stage[3]
      q == call.stage[4]
  IN IF call.stage[1] = "chapter_layer"
       THEN /\ Siblings(call.previous, c, "_plot.txt", 0, 0, TRUE, FALSE)
            /\ Len(call.previous_intents) = c - 1
            /\ \A j \in 1..(c - 1) :
                 \/ call.previous_intents[j] = TerminalIntent
                 \/ Tagged(call.previous_intents[j], "_intent.txt", j, 0, 0)
     ELSE IF call.stage[1] = "section_layer"
       THEN /\ Siblings(call.previous, x, "_plot.txt", c, 0, FALSE, TRUE)
            /\ call.previous_intents =
                 <<IF x = 1 THEN NoneText ELSE call.previous_intents[1]>>
            /\ x > 1 => Tagged(call.previous_intents[1], "_intent.txt", c, x - 1, 0)
     ELSE /\ Siblings(call.previous, q, "NNN.txt", c, x, FALSE, FALSE)
          /\ call.previous_intents =
               <<IF q = 1 THEN NoneText ELSE call.previous_intents[1]>>
          /\ q > 1 => Tagged(call.previous_intents[1], "NNN_intent.txt", c, x, q - 1)

\* every text a call received, sibling context and parent context
Received(call) ==
  {call.previous[j] : j \in 1..Len(call.previous)}
  \cup {call.previous_intents[j] : j \in 1..Len(call.previous_intents)}
  \cup {call.parent[j] : j \in 1..Len(call.parent)}

\* the Chapter stage receives no section or paragraph record, the Section
\* stage no paragraph record
NoDescendantState(call) ==
  \A t \in Received(call) :
    /\ call.stage[1] = "chapter_layer" => t[4] = 0 /\ t[5] = 0
    /\ call.stage[1] = "section_layer" => t[5] = 0

\* C14: chapters, the sections of a chapter and the paragraphs of a section
\* are processed in strictly increasing index order (when index i is due,
\* exactly the records 0..i-1 of the parent are there), and every stage call
\* for index i receives exactly those records as prior-sibling context, in
\* order, generated in this run or loaded, and no record of a lower level.
C14_OrderAndSiblingContext ==
  /\ pc = "chapter_layer"
       => Siblings(chapter_plots, ch_i + 1, "_plot.txt", 0, 0, TRUE, FALSE)
  /\ pc = "section_layer"
       => Siblings(prev_sections, sec_i + 1, "_plot.txt", ch_i + 1, 0, FALSE, TRUE)
  /\ pc = "paragraph_layer"
       => Siblings(prev_paragraphs, para_i + 1, "NNN.txt", ch_i + 1, sec_i + 1,
                   FALSE, FALSE)
  /\ \A i \in 1..Len(passed) : ContextExact(passed[i]) /\ NoDescendantState(passed[i])

\* a resume run called the Chapter stage for chapter 2 with the chapter 1
\* record loaded from the store, and the Section stage with a section record
\* generated in this run
C14_Witness ==
  /\ run = "run2"
  /\ \E i \in CallsOf("chapter_layer") :
       /\ passed[i].stage[2] = 2
       /\ passed[i].previous[1][1] = "run1"
  /\ \E i \in CallsOf("section_layer") :
       /\ passed[i].stage[3] = DefaultSectionCount
       /\ \A j \in 1..Len(passed[i].previous) : passed[i].previous[j][1] = "run2"

\* the place of a target layer, of a stage function or filter, and of an
\* artifact in the dependency order
LayerRank(layer) ==
  IF layer = "plot" THEN 1
  ELSE IF layer = "backstory" THEN 2
  ELSE IF layer = "character" THEN 3
  ELSE IF layer \in {"chapter", "timeline"} THEN 4
  ELSE IF layer = "section" THEN 5
  ELSE 6

CallRank(name) ==
  IF name = "plot_layer" THEN 1
  ELSE IF name = "backstory_layer" THEN 2
  ELSE IF name = "character_layer" THEN 3
  ELSE IF name \in {"chapter_layer", "timeline_layer",
                    "backstory_consistency_validation_filter",
                    "chapter_level_causal_chain_validation_filter"} THEN 4
  ELSE IF name \in {"section_layer", "section_level_causal_chain_validation_filter"}
    THEN 5
  ELSE 6

KeyRank(k) ==
  IF k = MasterPlotKey THEN 1
  ELSE IF k = BackstoryKey THEN 2
  ELSE IF k = CharacterKey THEN 3
  ELSE IF k[1] \in {"_plot.txt", "_intent.txt", "_timeline.txt"} /\ k[3] = 0 THEN 4
  ELSE IF k[1] \in {"_plot.txt", "_intent.txt", "sec_"} THEN 5
  ELSE 6

\* the outputs in memory up to rank r are all there
UpstreamThere(r) ==
  /\ r >= 1 => master_plot # EmptyText
  /\ r >= 2 => backstories # EmptyText
  /\ r >= 3 => characters # EmptyText
  /\ r >= 4 => /\ Len(chapter_plots) = chapter_count
               /\ Len(chapter_intents) = chapter_count
               /\ Len(all_characters_timeline) = chapter_count
  /\ r >= 5 => /\ Len(section_plots) = chapter_count
               /\ \A c \in 1..chapter_count : Len(section_plots[c]) >= DefaultSectionCount

\* C15: for every target, a run on a new generator object works in the
\* order plot, backstory, characters, chapter with timeline, section,
\* paragraph with style: an output is produced or reused only when everything
\* upstream of it is there, each once; nothing downstream of the target is
\* invoked or written (a section directory exists only where an earlier
\* pipeline left one); a run that completes has everything up to the target.
\* Target timeline behaves as chapter, style and all as paragraph.
C15_DependencyOrderAndStop ==
  /\ \A i \in 1..Len(calls) : CallRank(calls[i][1]) <= LayerRank(target)
  /\ \A i \in 1..(Len(calls) - 1) : CallRank(calls[i][1]) <= CallRank(calls[i + 1][1])
  /\ Cardinality({calls[i] : i \in 1..Len(calls)}) = Len(calls)
  /\ \A k \in written \cup hits : KeyRank(k) <= LayerRank(target)
  /\ LayerRank(target) < 5 /\ run = "run1"
       => \A k \in DOMAIN store :
            k[1] = "sec_" => /\ PlotKey(k[2], k[3]) \in DOMAIN store
                             /\ store[PlotKey(k[2], k[3])][1] = "old"
  /\ hits \cap written = {}
  /\ backstories # EmptyText => UpstreamThere(1)
  /\ characters # EmptyText => UpstreamThere(2)
  /\ chapter_plots # <<>> => UpstreamThere(3)
  /\ all_characters_timeline # <<>>
       => /\ UpstreamThere(3)
          /\ Len(all_characters_timeline) <= Len(chapter_plots)
  /\ l_section_plots # <<>> \/ section_plots # <<>> => UpstreamThere(4)
  /\ l_story_text # <<>> => UpstreamThere(5)
  /\ outcome = "completed" => UpstreamThere(IF LayerRank(target) = 6 THEN 5
                                             ELSE LayerRank(target))
  /\ outcome = "completed" /\ LayerRank(target) = 6 => story_text = l_story_text

\* a fresh run with target section completed: every stage up to the Section
\* stage was invoked, in order, and nothing of the paragraph level exists
C15_Witness ==
  /\ target = "section" /\ ~resume /\ outcome = "completed"
  /\ chapter_count = MaxChapters
  /\ {calls[i][1] : i \in 1..Len(calls)} \cap StageFunctions =
       {"plot_layer", "backstory_layer", "character_layer", "chapter_layer",
        "timeline_layer", "section_layer"}
  /\ \A k \in DOMAIN store : KeyRank(k) <= 5
  /\ written # {}

\* C16: a resume run never overwrites a chapter plot artifact that exists in
\* the store: no step of a resume run changes the content of an existing
\* chapter plot file, whichever other artifacts of the chapter exist or can
\* be read.
C16_ChapterPlotImmutable ==
  [][resume
       => \A c \in 1..MaxChapters :
            PlotKey(c, 0) \in DOMAIN store
              => /\ PlotKey(c, 0) \in DOMAIN store'
                 /\ store'[PlotKey(c, 0)] = store[PlotKey(c, 0)]]_vars

\* a resume run over a store that held the plot of chapter 1 (with its
\* timeline, and chapter 2 complete) wrote a new plot over it
C16_Witness ==
  /\ resume /\ run = "run1"
  /\ PlotKey(1, 0) \in written
  /\ store[PlotKey(1, 0)][1] = "run1"
  /\ TimelineKey(1) \in hits
  /\ PlotKey(2, 0) \in hits /\ store[PlotKey(2, 0)][1] = "old"

\* the calls of the style filter logged so far
StyleCalls(log) == {i \in 1..Len(log) : log[i][1] = "style_filter"}

\* C17: cache-or-compute applies to the Style stage output: in a resume run,
\* when the styled artifact of the paragraph being processed exists in the
\* store, the style filter is not invoked for it, the artifact is not
\* rewritten, and the stored styled text is what goes into the story.
C17_StyleCacheHit ==
  [][(/\ resume
      /\ pc = "paragraph_layer"
      /\ StyledKey(ch_i + 1, sec_i + 1, para_i + 1) \in DOMAIN store)
       => LET k == StyledKey(ch_i + 1, sec_i + 1, para_i + 1) IN
          /\ StyleCalls(calls') = StyleCalls(calls)
          /\ k \in DOMAIN store' /\ store'[k] = store[k]
          /\ k \in written' => k \in written
          /\ Len(l_story_text') = Len(l_story_text) + 1
               => l_story_text'[Len(l_story_text')] = store[k]]_vars

\* a resume run over a store that held paragraph 1 and its styled text
\* invoked the style filter for it and wrote the rewritten text over the
\* stored one
C17_Witness ==
  /\ resume /\ run = "run1"
  /\ ParagraphKey(1, 1, 1) \in hits
  /\ \E i \in StyleCalls(calls) : calls[i] = <<"style_filter", 1, 1, 1>>
  /\ StyledKey(1, 1, 1) \in written
  /\ store[StyledKey(1, 1, 1)] = <<"old", "styled", 1, 1, 1>>
  /\ store[ParagraphKey(1, 1, 1)] = <<"old", "NNN.txt", 1, 1, 1>>

\* C18: call_llm never raises, whatever attempts fail: it ends only by
\* returning. It returns the first successful response without invoking the
\* service again; when every attempt fails it has invoked the service exactly
\* max_retries + 1 times (4 with the default), slept once before each retry
\* and not after the last failure, and returns the sentinel text.
C18_RetryBudget ==
  /\ llm_pc \in {"call_llm", "while", "return"}
  /\ (llm_pc = "return") = (llm_result # "none")
  /\ llm_result \in {"none", "response", "sentinel"}
  /\ llm_pc = "while"
       => /\ invocations = retries /\ Len(sleeps) = retries
          /\ retries <= max_retries
  /\ llm_result = "response"
       => /\ invocations = retries + 1
          /\ Len(sleeps) = retries
          /\ invocations <= max_retries + 1
  /\ llm_result = "sentinel"
       => /\ invocations = max_retries + 1
          /\ retries = max_retries + 1
          /\ Len(sleeps) = max_retries
          /\ max_retries = DefaultMaxRetries => invocations = DefaultMaxRetries + 1
  /\ \A k \in 1..Len(sleeps) :
       \E jitter \in JitterHalves : sleeps[k] = initial_backoff * Pow2(k - 1) * jitter

\* with the default budget every attempt failed: four invocations, three
\* sleeps, the sentinel returned
C18_Witness ==
  /\ max_retries = DefaultMaxRetries
  /\ llm_pc = "return" /\ llm_result = "sentinel"
  /\ invocations = DefaultMaxRetries + 1
  /\ Len(sleeps) = DefaultMaxRetries

\* this step logged a call of the stage function named, which got the
\* sentinel from the adapter
SentinelStep(stage, sentinel) ==
  /\ Len(calls') = Len(calls) + 1
  /\ calls'[Len(calls')][1] = stage
  /\ Len(replies') = Len(replies) + 1
  /\ replies'[Len(replies')] = sentinel

\* the free-text stage took the sentinel as its artifact, saved it where the
\* file can be written, and the run goes on
TakenAsArtifact(field, k) ==
  /\ field = SentinelText
  /\ k \notin unwritable => k \in DOMAIN store' /\ store'[k] = SentinelText
  /\ outcome' # "error"
  /\ pc' # "exit"

\* the run ended with the error and no record or file of the output was made
AbortedUnwritten ==
  /\ outcome' = "error" /\ pc' = "exit"
  /\ written' = written
  /\ \A k \in DOMAIN store' : k \in DOMAIN store \/ store'[k] = DirMarker
  /\ \A k \in DOMAIN store : store'[k] = store[k]
  /\ UNCHANGED <<chapter_plots, chapter_intents, l_section_plots, l_section_intents,
                 prev_paragraphs>>

\* C19: when the adapter returns its sentinel text, a free-text stage (Plot,
\* Backstory, Character) takes it as its artifact, persists it and the run
\* continues; a structured stage (Chapter, Section) fails to parse it and the
\* run aborts with nothing written for that output; the Paragraph stage
\* likewise ends the run with nothing written.
C19_SentinelPropagation ==
  [][/\ SentinelStep("plot_layer", SentinelText)
          => TakenAsArtifact(master_plot', MasterPlotKey)
     /\ SentinelStep("backstory_layer", SentinelText)
          => TakenAsArtifact(backstories', BackstoryKey)
     /\ SentinelStep("character_layer", SentinelText)
          => TakenAsArtifact(characters', CharacterKey)
     /\ SentinelStep("chapter_layer", SentinelResponse) => AbortedUnwritten
     /\ SentinelStep("section_layer", SentinelResponse) => AbortedUnwritten
     /\ (StageCallStep("paragraph_layer") /\ outcome' = "error") => AbortedUnwritten]_vars

\* with the service down during the three free-text stages the run went on
\* with the sentinel as plot, backstory and characters, all three saved, and
\* reached the chapters
C19_Witness ==
  /\ outage = {"plot_layer", "backstory_layer", "character_layer"}
  /\ master_plot = SentinelText /\ backstories = SentinelText
  /\ characters = SentinelText
  /\ {MasterPlotKey, BackstoryKey, CharacterKey} \subseteq DOMAIN store
  /\ store[MasterPlotKey] = SentinelText /\ store[CharacterKey] = SentinelText
  /\ chapter_plots # <<>>

\* no record of a structured stage held in memory is empty
NoEmptyRecord(records) ==
  \A j \in 1..Len(records) : records[j] \notin {EmptyText, NoneText}

\* C20: for every response that is not a well-formed object, or in which a
\* required field is missing or empty, the Chapter and the Section stage
\* fail with the parse error (ValueError) and return nothing, also when the
\* response is well-formed JSON that is not an object; the Paragraph stage
\* fails with ValueError whenever it fails; and no record with an empty plot,
\* text or intent is ever returned.
C20_StrictParsing ==
  [][/\ (pc \in {"chapter_layer", "section_layer"} /\ Replied
          /\ ParseError(replies'[Len(replies')]))
          => /\ outcome' = "error" /\ error' = "ValueError"
             /\ UNCHANGED <<chapter_plots, chapter_intents, l_section_plots,
                            l_section_intents>>
     /\ (StageCallStep("paragraph_layer") /\ outcome' = "error")
          => /\ error' = "ValueError"
             /\ UNCHANGED prev_paragraphs
     /\ NoEmptyRecord(chapter_plots') /\ NoEmptyRecord(chapter_intents')
     /\ NoEmptyRecord(l_section_plots') /\ NoEmptyRecord(l_section_intents')
     /\ NoEmptyRecord(prev_paragraphs')]_vars

\* the Section stage got well-formed JSON that is not an object and the run
\* ended with an AttributeError, no section record made
C20_Witness ==
  /\ pc = "exit" /\ outcome = "error" /\ error = "AttributeError"
  /\ calls # <<>> /\ calls[Len(calls)] = <<"section_layer", 1, 1, 0>>
  /\ replies # <<>> /\ JsonLoads(replies[Len(replies)]).ok
  /\ ~IsDict(JsonLoads(replies[Len(replies)]).val)
  /\ l_section_plots = <<>>

\* C21: every call of the Paragraph stage, whatever its context, builds its
\* instruction without raising and invokes the generator adapter exactly
\* once; when the response is a well-formed object with a non-empty paragraph
\* and intent, the stage returns exactly those two fields.
C21_ParagraphSuccessPath ==
  [][StageCallStep("paragraph_layer")
       => /\ Replied
          /\ ~ParseError(replies'[Len(replies')])
               => /\ outcome' # "error"
                  /\ prev_paragraphs' =
                       Append(prev_paragraphs,
                              TextFor(run, ParagraphKey(ch_i + 1, sec_i + 1, para_i + 1)))
                  /\ prev_paragraph_intent' =
                       TextFor(run, ParagraphIntentKey(ch_i + 1, sec_i + 1, para_i + 1))]_vars

\* the Paragraph stage was called with earlier paragraphs and an earlier
\* intent as context, no response was asked of the generator and the run
\* ended with the ValueError of the instruction's formatting
C21_Witness ==
  /\ pc = "exit" /\ outcome = "error" /\ error = "ValueError"
  /\ passed # <<>> /\ passed[Len(passed)].stage[1] = "paragraph_layer"
  /\ passed[Len(passed)].previous # <<>>
  /\ passed[Len(passed)].previous_intents # <<NoneText>>
  /\ calls[Len(calls)][1] = "paragraph_layer"
  /\ Len(replies) < Len(calls)

\* the artifacts of an output exist and the read of one of them raises
ReadFails(keys) ==
  resume /\ keys \subseteq DOMAIN store /\ keys \cap unreadable # {}

\* the step invokes the stage function named for output <<c, x, q>>, and ends
\* the run with an error only if that function raised
Regenerated(stage, c, x, q) ==
  /\ Len(calls') > Len(calls)
  /\ calls'[Len(calls) + 1] = <<stage, c, x, q>>
  /\ outcome' = "error" => pc' = "exit" /\ error' \in {"ValueError", "AttributeError"}

\* A read failure at the cache-hit check is a cache miss: the stage function
\* is invoked and, when it returns, what it returned is taken into memory and
\* saved under the output's keys.
ReadFailureIsMiss ==
  /\ pc = "generate_plot" /\ ReadFails({MasterPlotKey})
       => /\ Regenerated("plot_layer", 0, 0, 0) /\ outcome' # "error"
          /\ master_plot' = replies'[Len(replies')]
          /\ Saved(MasterPlotKey, master_plot')
  /\ pc = "backstory_layer" /\ ReadFails({BackstoryKey})
       => /\ Regenerated("backstory_layer", 0, 0, 0) /\ outcome' # "error"
          /\ Saved(BackstoryKey, backstories')
  /\ pc = "character_layer" /\ ReadFails({CharacterKey})
       => /\ Regenerated("character_layer", 0, 0, 0) /\ outcome' # "error"
          /\ Saved(CharacterKey, characters')
  /\ pc = "chapter_layer" /\ ReadFails({PlotKey(ch_i + 1, 0), IntentKey(ch_i + 1, 0)})
       => /\ Regenerated("chapter_layer", ch_i + 1, 0, 0)
          /\ Replied
          /\ ~ParseError(replies'[Len(replies')])
               => /\ outcome' # "error"
                  /\ chapter_plots' =
                       Append(chapter_plots, TextFor(run, PlotKey(ch_i + 1, 0)))
                  /\ Saved(PlotKey(ch_i + 1, 0), chapter_plots'[ch_i + 1])
                  /\ Saved(IntentKey(ch_i + 1, 0), chapter_intents'[ch_i + 1])
  /\ pc = "timeline_layer" /\ ReadFails({TimelineKey(ch_i + 1)})
       => /\ Regenerated("timeline_layer", ch_i + 1, 0, 0) /\ outcome' # "error"
          /\ Replied
          /\ all_characters_timeline' =
               timeline_layer(chapter_plots, all_characters_timeline,
                              replies'[Len(replies')]).timeline
          /\ Len(all_characters_timeline') > ch_i
               => Saved(TimelineKey(ch_i + 1), all_characters_timeline'[ch_i + 1])
  /\ pc = "section_layer"
     /\ ReadFails({PlotKey(ch_i + 1, sec_i + 1), IntentKey(ch_i + 1, sec_i + 1)})
       => /\ Regenerated("section_layer", ch_i + 1, sec_i + 1, 0)
          /\ Replied /\ ~ParseError(replies'[Len(replies')])
               => /\ outcome' # "error"
                  /\ l_section_plots' =
                       Append(l_section_plots, TextFor(run, PlotKey(ch_i + 1, sec_i + 1)))
                  /\ Saved(PlotKey(ch_i + 1, sec_i + 1), l_section_plots'[sec_i + 1])
                  /\ Saved(IntentKey(ch_i + 1, sec_i + 1), l_section_intents'[sec_i + 1])
  /\ pc = "paragraph_layer"
     /\ ReadFails({ParagraphKey(ch_i + 1, sec_i + 1, para_i + 1),
                   ParagraphIntentKey(ch_i + 1, sec_i + 1, para_i + 1)})
       => /\ Regenerated("paragraph_layer", ch_i + 1, sec_i + 1, para_i + 1)
          /\ outcome' # "error"
               => /\ Saved(ParagraphKey(ch_i + 1, sec_i + 1, para_i + 1),
                           prev_paragraphs'[para_i + 1])
                  /\ Saved(ParagraphIntentKey(ch_i + 1, sec_i + 1, para_i + 1),
                           prev_paragraph_intent')

\* the file of key k is one whose write raises, and the step leaves it as it was
WriteFails(k) ==
  /\ k \in unwritable
  /\ k \in DOMAIN store' <=> k \in DOMAIN store
  /\ k \in DOMAIN store => store'[k] = store[k]

\* A step whose write raises goes on as the same step with a write that
\* succeeds: the value stays in memory, the run is not aborted.
WriteFailureAbsorbed ==
  /\ \A k \in unwritable : WriteFails(k)
  /\ outcome = "running" /\ outcome' = "error"
       => /\ Len(calls') = Len(calls) + 1
          /\ calls'[Len(calls')][1] \in {"chapter_layer", "section_layer", "paragraph_layer"}
  /\ pc = "generate_plot" /\ Len(calls') > Len(calls) /\ MasterPlotKey \in unwritable
       => pc' # "exit" \/ outcome' = "completed"
  /\ pc = "generate_plot" /\ Len(calls') > Len(calls)
       => master_plot' = replies'[Len(replies')]
  /\ pc = "chapter_layer" /\ Replied /\ ~ParseError(replies'[Len(replies')])
       => /\ outcome' # "error"
          /\ chapter_plots' = Append(chapter_plots, TextFor(run, PlotKey(ch_i + 1, 0)))
  /\ pc = "timeline_layer" /\ Replied
       => /\ outcome' # "error"
          /\ all_characters_timeline' =
               timeline_layer(chapter_plots, all_characters_timeline,
                              replies'[Len(replies')]).timeline
  /\ pc = "section_layer" /\ Replied /\ ~ParseError(replies'[Len(replies')])
       => /\ outcome' # "error"
          /\ l_section_intents' =
               Append(l_section_intents, TextFor(run, IntentKey(ch_i + 1, sec_i + 1)))
  /\ pc = "paragraph_layer" /\ outcome' # "error"
       => l_story_text' =
            Append(l_story_text,
                   style_filter(styler', prev_paragraphs'[Len(prev_paragraphs')]))
  /\ pc = "save_story"
       => story_text' = l_story_text /\ outcome' # "error"

\* the story a completed run of the whole pipeline holds: every paragraph of
\* every section of every chapter, styled, in document order, whatever write
\* raised
StoryAssembled ==
  pc' = "exit" /\ pc = "save_story"
    => /\ outcome' = "completed"
       /\ StyledInOrder(story_text') /\ AllParagraphsIn(story_text')
       /\ Saved(CompleteStoryKey, story_text')

\* C22: a failure to write an artifact does not abort the run, which goes on
\* with the value in memory and assembles the story it would have assembled
\* had the write succeeded; a failure to read an existing artifact at the
\* cache-hit check of a resume run, text artifact or timeline JSON, is a
\* cache miss: the stage function is invoked, its result persisted, and the
\* read error does not propagate.
C22_StorageErrorsAbsorbed ==
  [][ReadFailureIsMiss /\ WriteFailureAbsorbed /\ StoryAssembled]_vars

\* a resume run whose timeline file of chapter 1 could not be loaded made the
\* snapshot anew and completed; and the like run that could not write
\* complete_story.txt completed with the whole story in memory
C22_Witness ==
  /\ resume /\ run = "run1" /\ pc = "exit" /\ outcome = "completed"
  /\ \/ /\ unreadable = {TimelineKey(1)}
        /\ <<"timeline_layer", 1, 0, 0>> \in {calls[i] : i \in 1..Len(calls)}
        /\ TimelineKey(1) \in written
        /\ CompleteStoryKey \in written
     \/ /\ unwritable = {CompleteStoryKey}
        /\ Len(Bodies(story_text)) =
             chapter_count * DefaultSectionCount * DefaultParagraphCount
        /\ chapter_count = MaxChapters
        /\ store[CompleteStoryKey] = <<TextFor("old", CompleteStoryKey)>>

\* the names that --layer accepts in the runs explored: the layer values, in
\* any case
KnownLayerArgs == {"all", "ALL", "Plot", "section"}

\* C23: a run with a stage name that is not a stage identifier or "all",
\* compared without regard to case, ends before any generation begins: no
\* generator object is built, no stage function is invoked, nothing is
\* written to the store, and the error reported lists the valid stage names;
\* a known name in another case is not rejected.
C23_UnknownStageName ==
  [][/\ layer_arg \notin KnownLayerArgs
          => /\ UNCHANGED <<store, output_dir, generator, calls, replies, written, hits>>
             /\ generator' = FALSE /\ calls' = <<>> /\ written' = {}
             /\ pc \in {"main", "from_string"}
             /\ pc = "from_string"
                  => /\ pc' = "exit" /\ outcome' = "error"
                     /\ printed'[Len(printed')] = <<"Invalid layer", layer_arg, LayerValues>>
                     /\ \A l \in Layer :
                          \E j \in 1..Len(LayerValues) :
                            printed'[Len(printed')][3][j] = l
     /\ layer_arg \in KnownLayerArgs /\ pc = "from_string"
          => pc' = "StoryGenerator" /\ target' \in Layer /\ outcome' = "running"]_vars

\* a run asked for the layer "chapters" over an empty store has ended with
\* the list of the valid names, nothing built, called or written
C23_Witness ==
  /\ pc = "exit" /\ outcome = "error" /\ layer_arg = "chapters"
  /\ printed # <<>> /\ printed[Len(printed)] = <<"Invalid layer", "chapters", LayerValues>>
  /\ ~generator /\ ~output_dir /\ store = EmptyStore
  /\ calls = <<>> /\ written = {}

\* main reads the prompt file, and the read raises
PromptFileUnreadable == prompt_arg # "given" /\ prompt_file = "unreadable"

\* C24: a prompt file that cannot be read ends the run with a diagnostic
\* before any generation work begins: no generator object is built, no stage
\* function is invoked and no artifact is written.
C24_UnreadablePromptFile ==
  [][PromptFileUnreadable
       => /\ UNCHANGED <<store, generator, calls, written>>
          /\ pc = "main"
               => /\ pc' = "exit" /\ outcome' = "error"
                  /\ printed' = <<<<"Error reading prompt file">>>>]_vars

\* a run whose prompt file could not be read went on with the built-in
\* prompt, invoked stage functions and wrote artifacts
C24_Witness ==
  /\ PromptFileUnreadable /\ layer_arg = "all" /\ ~resume
  /\ printed = <<<<"Error reading prompt file">>>>
  /\ user_input = "default"
  /\ generator
  /\ pc = "exit"
  /\ calls # <<>> /\ calls[1] = <<"plot_layer", 0, 0, 0>>
  /\ MasterPlotKey \in written

BackstoryFilter == "backstory_consistency_validation_filter"

ChapterFilter == "chapter_level_causal_chain_validation_filter"

SectionFilter == "section_level_causal_chain_validation_filter"

\* how often the run has invoked the function named for chapter c
Invocations(name, c) == Cardinality({i \in 1..Len(calls) : calls[i] = <<name, c, 0, 0>>})

\* the step invokes the filter named for chapter c, for the first time
FirstInvocation(name, c) ==
  /\ Invocations(name, c) = 0
  /\ calls' = Append(calls, <<name, c, 0, 0>>)

\* nothing of a chapter after c has been computed or reused on level lv
\* (0 the chapters and their timelines, 1 the sections)
NothingBeyond(c, lv) ==
  /\ \A i \in 1..Len(calls) :
       (IF lv = 0 THEN calls[i][3] = 0 ELSE calls[i][1] \in {"section_layer", SectionFilter})
         => calls[i][2] <= c
  /\ \A k \in hits : (IF lv = 0 THEN k[3] = 0 ELSE k[3] > 0) => k[2] <= c

\* C25: the Backstory-Consistency filter is invoked once per chapter, when
\* that chapter's plot, intent and timeline snapshot are there and before
\* anything of the next chapter; the Chapter-level Causal-Chain filter is
\* invoked once, after the last chapter, with all chapter plots and the whole
\* timeline there; the Section-level Causal-Chain filter is invoked once per
\* chapter, after all sections of that chapter and before any section of the
\* next; no other step invokes a filter.
C25_ValidationPoints ==
  [][/\ pc = "validate_chapter"
          => /\ FirstInvocation(BackstoryFilter, ch_i + 1)
             /\ Len(chapter_plots) = ch_i + 1 /\ Len(chapter_intents) = ch_i + 1
             /\ Len(all_characters_timeline) = ch_i + 1
             /\ NothingBeyond(ch_i + 1, 0)
             /\ Invocations(ChapterFilter, 0) = 0
     /\ pc = "chapter_layer" /\ ch_i > 0 => Invocations(BackstoryFilter, ch_i) = 1
     /\ pc = "validate_all_chapters"
          => /\ FirstInvocation(ChapterFilter, 0)
             /\ Len(chapter_plots) = chapter_count
             /\ Len(all_characters_timeline) = chapter_count
             /\ \A c \in 1..chapter_count : Invocations(BackstoryFilter, c) = 1
             /\ pc' \notin {"chapter_layer", "timeline_layer", "validate_chapter"}
     /\ pc = "validate_sections"
          => /\ FirstInvocation(SectionFilter, ch_i + 1)
             /\ Len(l_section_plots) = section_count
             /\ section_count >= DefaultSectionCount
             /\ Len(section_plots) = ch_i
             /\ NothingBeyond(ch_i + 1, 1)
     /\ pc = "section_layer"
          => /\ Invocations(ChapterFilter, 0) = 1
             /\ ch_i > 0 => Invocations(SectionFilter, ch_i) = 1
     /\ pc \notin ValidationPoints /\ run' = run
          => \A i \in 1..Len(calls') :
               calls'[i][1] \in {BackstoryFilter, ChapterFilter, SectionFilter}
                 => i <= Len(calls) /\ calls[i] = calls'[i]
     /\ outcome' = "completed" /\ target \notin {"plot", "backstory", "character"}
          => /\ \A c \in 1..chapter_count : Invocations(BackstoryFilter, c) = 1
             /\ Cardinality({i \in 1..Len(calls') : calls'[i][1] = ChapterFilter}) = 1
             /\ target \in {"section", "paragraph", "style", "all"}
                  => \A c \in 1..chapter_count :
                       Cardinality({i \in 1..Len(calls') :
                                      calls'[i] = <<SectionFilter, c, 0, 0>>}) = 1]_vars

\* a completed run of the whole pipeline invoked the Backstory-Consistency
\* filter for each chapter, then the Chapter-level filter, then the
\* Section-level filter for each chapter, each once, in this order
C25_Witness ==
  /\ pc = "exit" /\ outcome = "completed" /\ target = "all"
  /\ chapter_count = MaxChapters
  /\ SelectSeq(calls, LAMBDA call :
                 call[1] \in {BackstoryFilter, ChapterFilter, SectionFilter})
       = [c \in 1..MaxChapters |-> <<BackstoryFilter, c, 0, 0>>]
         \o <<<<ChapterFilter, 0, 0, 0>>>>
         \o [c \in 1..MaxChapters |-> <<SectionFilter, c, 0, 0>>]
  /\ \E i \in 1..Len(calls) : calls[i][1] = "chapter_layer"

\* a non-empty response without a field marker of a structured stage
LacksMarkers(response) ==
  /\ response # <<>>
  /\ \A j \in 1..Len(response) : response[j] \notin KeyLexemes

\* the step added one record to both lists, neither empty
ReturnedTwo(plots, plots_, intents, intents_) ==
  /\ Len(plots_) = Len(plots) + 1 /\ Len(intents_) = Len(intents) + 1
  /\ plots_[Len(plots_)] \notin {EmptyText, NoneText}
  /\ intents_[Len(intents_)] \notin {EmptyText, NoneText}

\* C26: for every non-empty response that lacks the field markers the stage
\* expects, the Chapter and the Section stage do not fail: they fall back to
\* halving the response (the first half for the plot, a placeholder for the
\* intent) and return two non-empty strings.
C26_MarkerFallback ==
  [][(/\ pc \in {"chapter_layer", "section_layer"}
      /\ Replied
      /\ LacksMarkers(replies'[Len(replies')]))
       => /\ outcome' # "error"
          /\ pc = "chapter_layer"
               => ReturnedTwo(chapter_plots, chapter_plots', chapter_intents, chapter_intents')
          /\ pc = "section_layer"
               => ReturnedTwo(l_section_plots, l_section_plots',
                              l_section_intents, l_section_intents')]_vars

\* the Chapter stage got free text with no marker in it and the run ended
\* with ValueError, no chapter record made
C26_Witness ==
  /\ pc = "exit" /\ outcome = "error" /\ error = "ValueError"
  /\ calls # <<>> /\ calls[Len(calls)] = <<"chapter_layer", 1, 0, 0>>
  /\ replies # <<>> /\ replies[Len(replies)] = <<"x">>
  /\ LacksMarkers(replies[Len(replies)])
  /\ chapter_plots = <<>> /\ chapter_intents = <<>>

\* the artifacts of the output the run is at
OwnKeys ==
  IF pc = "generate_plot" THEN {MasterPlotKey}
  ELSE IF pc = "backstory_layer" THEN {BackstoryKey}
  ELSE IF pc = "character_layer" THEN {CharacterKey}
  ELSE IF pc = "chapter_layer" THEN {PlotKey(ch_i + 1, 0), IntentKey(ch_i + 1, 0)}
  ELSE IF pc = "timeline_layer" THEN {TimelineKey(ch_i + 1)}
  ELSE IF pc = "section_layer"
    THEN {PlotKey(ch_i + 1, sec_i + 1), IntentKey(ch_i + 1, sec_i + 1)}
  ELSE IF pc = "paragraph_layer"
    THEN {ParagraphKey(ch_i + 1, sec_i + 1, para_i + 1),
          ParagraphIntentKey(ch_i + 1, sec_i + 1, para_i + 1)}
  ELSE {}

\* the step invokes a stage function
StageInvoked ==
  \E i \in (Len(calls) + 1)..Len(calls') : calls'[i][1] \in StageFunctions

\* In a resume run in which a stage function has been invoked already, an
\* output whose own artifacts satisfy P is reused: no stage call, the content
\* of the files in memory, the files as they were; and an output whose
\* artifacts are not all in the store is computed, whatever else is there.
ReuseAfterRegeneration(P(_)) ==
  /\ resume /\ StageCalls # {} /\ OwnKeys # {} /\ P(OwnKeys)
       => /\ CacheHit(P)
          /\ ~StageInvoked
          /\ \A k \in OwnKeys : k \in DOMAIN store' /\ store'[k] = store[k]
          /\ OwnKeys \subseteq hits'
          /\ outcome' # "error"
  /\ resume /\ OwnKeys # {} /\ ~Persisted(OwnKeys) => StageInvoked

\* C27 as stated: in a resume run the reuse of an output depends on the
\* existence of its own artifacts only: after an earlier output has been
\* regenerated in the run, a later or dependent output that is present in the
\* store is reused with unchanged content, its stage function not invoked.
C27_ReuseWheneverPresent == [][ReuseAfterRegeneration(Persisted)]_vars

\* C27, amended: in a resume run the reuse of an output depends only on its
\* own artifacts being there and readable: after an earlier output has been
\* regenerated in the run, a later or dependent output whose artifacts exist
\* and can be read is reused with unchanged content, its stage function not
\* invoked; an output whose artifacts are not all there is computed.
C27_ReuseWheneverReadable == [][ReuseAfterRegeneration(Readable)]_vars

\* a resume run over a store without the files of chapter 1 invoked the
\* Chapter and the Timeline stage for chapter 1 and nothing else, reused
\* chapter 2, its timeline, the sections and the paragraphs, and completed
C27_Witness ==
  /\ resume /\ run = "run1" /\ pc = "exit" /\ outcome = "completed"
  /\ chapter_count = MaxChapters /\ unreadable = {}
  /\ {calls[i] : i \in StageCalls} =
       {<<"chapter_layer", 1, 0, 0>>, <<"timeline_layer", 1, 0, 0>>}
  /\ {PlotKey(MaxChapters, 0), TimelineKey(MaxChapters), PlotKey(1, 1),
      ParagraphKey(1, 1, 1)} \subseteq hits
  /\ store[PlotKey(1, 0)] = TextFor("run1", PlotKey(1, 0))
  /\ store[PlotKey(1, 1)] = TextFor("old", PlotKey(1, 1))
  /\ section_plots[1][1] = TextFor("old", PlotKey(1, 1))

\* the chapter loop of the run is over
ChaptersDone == Len(chapter_plots) = chapter_count /\ pc = "validate_all_chapters"

\* C28: when the chapter stage of a run has finished, fresh or resumed over
\* the artifacts of an earlier run with whatever chapter count, the intent
\* held for chapter index chapter_count - 1 is the terminal intent.
C28_TerminalIntentAtLastChapter ==
  ChaptersDone /\ chapter_count > 0
    => /\ Len(chapter_intents) = chapter_count
       /\ chapter_intents[chapter_count] = TerminalIntent

\* a resume run with one chapter less than the store holds has finished its
\* chapter stage with the reused intent of a chapter that was not the last
\* when it was written
C28_Witness ==
  /\ ChaptersDone /\ resume /\ run = "run1"
  /\ chapter_count = MaxChapters - 1 /\ chapter_count > 0
  /\ IntentKey(MaxChapters, 0) \in DOMAIN store
  /\ store[IntentKey(MaxChapters, 0)] = TerminalIntent
  /\ IntentKey(chapter_count, 0) \in hits
  /\ chapter_intents[chapter_count] = TextFor("old", IntentKey(chapter_count, 0))
  /\ chapter_intents[chapter_count] # TerminalIntent

\* the step invokes the Timeline stage for the chapter the loop is at
TimelineCall ==
  /\ pc = "timeline_layer"
  /\ calls' = Append(calls, <<"timeline_layer", ch_i + 1, 0, 0>>)

\* C29: whenever the Timeline stage is invoked for chapter i (ch_i, counted
\* from 0), in a fresh run, a resume run without the snapshot or one whose
\* load of the snapshot failed, the timeline has exactly i entries and the
\* chapter plots i + 1, the stage returns without error, the entries before
\* stay and the new snapshot is entry i; at the end of every iteration of the
\* chapter loop the chapter plots, the chapter intents and the timeline all
\* have length i + 1.
C29_TimelineIndexAlignment ==
  [][/\ TimelineCall
          => /\ Len(all_characters_timeline) = ch_i
             /\ Len(chapter_plots) = ch_i + 1
             /\ outcome' # "error"
             /\ Replied
             /\ Len(all_characters_timeline') = ch_i + 1
             /\ SubSeq(all_characters_timeline', 1, ch_i) = all_characters_timeline
             /\ LET parsed == JsonLoads(extract_json_from_response(replies'[Len(replies')]))
                IN all_characters_timeline'[ch_i + 1] =
                     IF parsed.ok THEN parsed.val ELSE EmptyDict
             /\ Saved(TimelineKey(ch_i + 1), all_characters_timeline'[ch_i + 1])
     /\ pc = "chapter_layer"
          => /\ Len(chapter_plots) = ch_i /\ Len(chapter_intents) = ch_i
             /\ Len(all_characters_timeline) = ch_i
     /\ pc = "timeline_layer"
          => /\ Len(chapter_plots) = ch_i + 1 /\ Len(chapter_intents) = ch_i + 1
             /\ Len(all_characters_timeline) = ch_i
     /\ pc = "validate_chapter"
          => /\ Len(chapter_plots) = ch_i + 1 /\ Len(chapter_intents) = ch_i + 1
             /\ Len(all_characters_timeline) = ch_i + 1
             /\ Len(chapter_plots') = ch_i' /\ Len(chapter_intents') = ch_i'
             /\ Len(all_characters_timeline') = ch_i']_vars

\* a resume run whose load of chapter 1's snapshot failed invoked the Timeline
\* stage for chapter 1, reused the snapshot of the last chapter, and stands
\* at the end of the last iteration with MaxChapters entries in each list
C29_Witness ==
  /\ pc = "validate_chapter" /\ ch_i = MaxChapters - 1 /\ chapter_count = MaxChapters
  /\ resume /\ unreadable = {TimelineKey(1)} /\ TimelineKey(1) \in DOMAIN store
  /\ <<"timeline_layer", 1, 0, 0>> \in {calls[i] : i \in 1..Len(calls)}
  /\ TimelineKey(MaxChapters) \in hits
  /\ Len(all_characters_timeline) = MaxChapters
  /\ Len(chapter_plots) = MaxChapters /\ Len(chapter_intents) = MaxChapters

\* C30: at every call of the Section stage for a section of chapter c, the
\* timeline snapshot the stage uses is the cumulative timeline through
\* chapter c (entry c of the timeline), for every chapter of the run and not
\* only the last.
C30_SectionTimelineSlice ==
  \A i \in CallsOf("section_layer") :
    /\ Len(passed[i].timeline) >= passed[i].stage[2]
    /\ LatestTimeline(passed[i].timeline) = passed[i].timeline[passed[i].stage[2]]

\* the Section stage was called for a section of chapter 1 of a run of
\* MaxChapters chapters and used the snapshot of the last chapter, which is
\* not that of chapter 1
C30_Witness ==
  /\ chapter_count = MaxChapters /\ MaxChapters > 1
  /\ passed # <<>> /\ passed[Len(passed)].stage = <<"section_layer", 1, 1, 0>>
  /\ Len(passed[Len(passed)].timeline) = MaxChapters
  /\ LatestTimeline(passed[Len(passed)].timeline) = passed[Len(passed)].timeline[MaxChapters]
  /\ passed[Len(passed)].timeline[MaxChapters] # passed[Len(passed)].timeline[1]
  /\ passed[Len(passed)].timeline[1] = JsonLoads(CumulativeText(1)).val

\* a snapshot is a mapping from character to a mapping from timestamp to
\* event text
SnapshotShaped(v) ==
  /\ IsDict(v)
  /\ \A character \in DOMAIN v.obj :
       /\ IsDict(v.obj[character])
       /\ \A timestamp \in DOMAIN v.obj[character].obj :
            "str" \in DOMAIN v.obj[character].obj[timestamp]

\* the run was ended by the Section stage while it read the timeline, before
\* it asked the generator for anything
AbortedOnShape ==
  /\ outcome = "error" /\ error = "AttributeError"
  /\ calls # <<>> /\ calls[Len(calls)][1] = "section_layer"
  /\ TimelineInfoFails(all_characters_timeline)

\* C31: every element of the timeline the orchestrator holds, and every
\* snapshot it has written, is a mapping from character name to a mapping
\* from timestamp to event text, whatever the generator answered to the
\* Timeline stage; so no later stage aborts because of a snapshot's shape.
C31_SnapshotShape ==
  /\ \A i \in 1..Len(all_characters_timeline) : SnapshotShaped(all_characters_timeline[i])
  /\ \A k \in written : k[1] = "_timeline.txt" => SnapshotShaped(store[k])
  /\ ~AbortedOnShape

\* the generator answered the Timeline stage with a JSON array; the array
\* became the snapshot of chapter 1, was written to its file, and the first
\* call of the Section stage ended the run with AttributeError
C31_Witness ==
  /\ ~resume /\ run = "run1" /\ pc = "exit" /\ AbortedOnShape
  /\ all_characters_timeline # <<>>
  /\ all_characters_timeline[1] = JArr(<<>>)
  /\ TimelineKey(1) \in written /\ store[TimelineKey(1)] = JArr(<<>>)
  /\ calls[Len(calls)] = <<"section_layer", 1, 1, 0>>

\* ---------------------------------------------------------------- C32
\* a resume run that follows a completed run with the same chapter count,
\* the style filter being the identity and every file readable
ResumeOfCompleted ==
  /\ run = "run2"
  /\ previous.outcome = "completed"
  /\ previous.chapter_count = chapter_count
  /\ unreadable = {}
  /\ styler \in {"unset", "identity"}

AssignedBefore(stage, k) ==
  k \in hits \/ \E i \in 1..Len(calls) : calls[i][1] = stage

\* a step of one run changes the scalar at the one label that assigns it, and
\* that label is reached before any assignment of the scalar
WriteOnce(old, new, label, stage, k) ==
  /\ new # old => pc = label
  /\ pc = label => ~AssignedBefore(stage, k)

\* the step leaves the list alone or appends one entry to it, up to
\* chapter_count entries
AppendOnly(old, new) ==
  \/ new = old
  \/ /\ Len(new) = Len(old) + 1
     /\ Len(new) <= chapter_count
     /\ SubSeq(new, 1, Len(old)) = old

\* C33: within one run the master plot, the backstory and the characters
\* are each assigned at most once; every step leaves the chapter-plot list,
\* the chapter-intent list and the timeline unchanged or longer by one entry
\* with the earlier entries unchanged, never beyond chapter_count entries (so
\* the timeline before a Timeline stage call is a prefix of the one after it);
\* when the chapter loop is over each of the three has chapter_count entries.
C33_WriteOnceAppendOnly ==
  /\ [][run' = run
          => /\ WriteOnce(master_plot, master_plot', "generate_plot", "plot_layer", MasterPlotKey)
             /\ WriteOnce(backstories, backstories', "backstory_layer", "backstory_layer", BackstoryKey)
             /\ WriteOnce(characters, characters', "character_layer", "character_layer", CharacterKey)
             /\ AppendOnly(chapter_plots, chapter_plots')
             /\ AppendOnly(chapter_intents, chapter_intents')
             /\ AppendOnly(all_characters_timeline, all_characters_timeline')]_vars
  /\ [](pc = "validate_all_chapters"
          => /\ Len(chapter_plots) = chapter_count
             /\ Len(chapter_intents) = chapter_count
             /\ Len(all_characters_timeline) = chapter_count)

\* every chapter of a fresh run has been generated: the three scalars are the
\* texts the run's stages returned, each stage called once, and the timeline
\* has one snapshot per chapter, the first chapter's still its first entry
C33_Witness ==
  /\ ~resume /\ run = "run1"
  /\ pc = "validate_all_chapters"
  /\ chapter_count = MaxChapters
  /\ master_plot = TextFor(run, MasterPlotKey)
  /\ backstories = TextFor(run, BackstoryKey)
  /\ characters = TextFor(run, CharacterKey)
  /\ \A stage \in {"plot_layer", "backstory_layer", "character_layer"} :
       Cardinality({i \in 1..Len(calls) : calls[i][1] = stage}) = 1
  /\ Len(chapter_plots) = MaxChapters
  /\ Len(chapter_intents) = MaxChapters
  /\ Len(all_characters_timeline) = MaxChapters
  /\ all_characters_timeline[1] = store[TimelineKey(1)]
  /\ all_characters_timeline[MaxChapters] # all_characters_timeline[1]

\* ---------------------------------------------------------------- C34
\* the intent of section x of chapter c as this run holds it, generated or
\* loaded: in the field once the chapter's sections are done, in the local
\* list of the chapter under way before
IntentOfSection(c, x) ==
  IF c <= Len(section_intents) THEN section_intents[c][x] ELSE l_section_intents[x]

\* C34: the previous intent handed to the Section stage is none at the first
\* section of every chapter and, at section s > 0, the intent of section s-1
\* of the same chapter, generated or loaded; the previous intent handed to
\* the Paragraph stage is none at the first paragraph of every section and,
\* at paragraph p > 0, the intent of paragraph p-1 of the same section. This
\* holds of the value about to be handed over at each step and of what every
\* logged call received.
C34_IntentChaining ==
  /\ pc = "section_layer"
       => /\ sec_i = 0 => prev_section_intent = NoneText
          /\ sec_i > 0 => /\ prev_section_intent = l_section_intents[sec_i]
                          /\ Tagged(prev_section_intent, "_intent.txt", ch_i + 1, sec_i, 0)
  /\ pc = "paragraph_layer"
       => /\ para_i = 0 => prev_paragraph_intent = NoneText
          /\ para_i > 0 => /\ prev_paragraph_intent =
                               store[ParagraphIntentKey(ch_i + 1, sec_i + 1, para_i)]
                           /\ Tagged(prev_paragraph_intent, "NNN_intent.txt",
                                     ch_i + 1, sec_i + 1, para_i)
  /\ \A i \in CallsOf("section_layer") :
       LET c == passed[i].stage[2]
           x == passed[i].stage[3]
       IN passed[i].previous_intents =
            <<IF x = 1 THEN NoneText ELSE IntentOfSection(c, x - 1)>>
  /\ \A i \in CallsOf("paragraph_layer") :
       LET c == passed[i].stage[2]
           x == passed[i].stage[3]
           q == passed[i].stage[4]
       IN passed[i].previous_intents =
            <<IF q = 1 THEN NoneText ELSE store[ParagraphIntentKey(c, x, q - 1)]>>

\* a resume run has called the Section stage for the first section of a
\* later chapter with no intent, for a later section with the intent it had
\* just generated, and for a later section with an intent it had loaded
C34_Witness ==
  /\ resume
  /\ \E i \in CallsOf("section_layer") :
       /\ passed[i].stage[2] > 1
       /\ passed[i].stage[3] = 1
       /\ passed[i].previous_intents = <<NoneText>>
  /\ \E i \in CallsOf("section_layer") :
       /\ passed[i].stage[3] > 1
       /\ passed[i].previous_intents[1][1] = run
  /\ \E i \in CallsOf("section_layer") :
       /\ passed[i].stage[3] > 1
       /\ passed[i].previous_intents[1][1] # run

\* ---------------------------------------------------------------- C35
\* a fresh run that has met no storage failure and whose store holds only
\* files it wrote itself: a fresh run that started from the empty store
FreshFromEmpty ==
  /\ run = "run1" /\ ~resume
  /\ unreadable = {} /\ unwritable = {}
  /\ DOMAIN Files(store) \subseteq written

Has(k) == k \in DOMAIN store

ScalarsExist == Has(MasterPlotKey) /\ Has(BackstoryKey) /\ Has(CharacterKey)

ChapterExists(j) == Has(PlotKey(j, 0)) /\ Has(IntentKey(j, 0)) /\ Has(TimelineKey(j))

SectionExists(c, x) == Has(PlotKey(c, x)) /\ Has(IntentKey(c, x))

ParagraphExists(c, x, q) ==
  Has(ParagraphKey(c, x, q)) /\ Has(ParagraphIntentKey(c, x, q)) /\ Has(StyledKey(c, x, q))

\* (c1, x1) comes before (c2, x2) in pipeline order
Earlier(c1, x1, c2, x2) == c1 < c2 \/ (c1 = c2 /\ x1 < x2)

\* C35: at every point of a fresh run from the empty store without storage
\* failure, the point of an abort included, the store is closed under
\* pipeline order: a chapter's plot comes with the three scalars and the
\* plot, intent and timeline of every earlier chapter; a section's plot with
\* every chapter's artifacts and the plot and intent of every earlier section;
\* a paragraph's text with every section's artifacts and the text, intent and
\* styled text of every earlier paragraph; complete_story.txt with every
\* paragraph's styled text.
C35_PrefixClosed ==
  FreshFromEmpty =>
    /\ \A i \in 1..MaxChapters :
         Has(PlotKey(i, 0)) => ScalarsExist /\ \A j \in 1..(i - 1) : ChapterExists(j)
    /\ \A c \in 1..MaxChapters, x \in 1..DefaultSectionCount :
         Has(PlotKey(c, x))
           => /\ ScalarsExist
              /\ \A j \in 1..chapter_count : ChapterExists(j)
              /\ \A c1 \in 1..MaxChapters, x1 \in 1..DefaultSectionCount :
                   Earlier(c1, x1, c, x) => SectionExists(c1, x1)
    /\ \A c \in 1..MaxChapters, x \in 1..DefaultSectionCount, q \in 1..DefaultParagraphCount :
         Has(ParagraphKey(c, x, q))
           => /\ \A c1 \in 1..chapter_count, x1 \in 1..DefaultSectionCount :
                   SectionExists(c1, x1)
              /\ \A c1 \in 1..MaxChapters, x1 \in 1..DefaultSectionCount,
                    q1 \in 1..DefaultParagraphCount :
                   (Earlier(c1, x1, c, x) \/ (c1 = c /\ x1 = x /\ q1 < q))
                     => ParagraphExists(c1, x1, q1)
    /\ Has(CompleteStoryKey)
         => \A c \in 1..chapter_count, x \in 1..DefaultSectionCount,
               q \in 1..DefaultParagraphCount : Has(StyledKey(c, x, q))

\* a fresh run from the empty store has aborted in the sections of its last
\* chapter: the scalars, every chapter's artifacts and every earlier section
\* are in the store, the section it stopped at is not
C35_Witness ==
  /\ FreshFromEmpty
  /\ chapter_count = MaxChapters
  /\ pc = "exit" /\ outcome = "error"
  /\ ScalarsExist
  /\ \A j \in 1..MaxChapters : ChapterExists(j)
  /\ \A c1 \in 1..(MaxChapters - 1), x1 \in 1..DefaultSectionCount : SectionExists(c1, x1)
  /\ SectionExists(MaxChapters, 1)
  /\ ~Has(PlotKey(MaxChapters, DefaultSectionCount))
  /\ written # {}

\* ---------------------------------------------------------------- C36
\* the smaller of two numbers
Least(a, b) == IF a <= b THEN a ELSE b

\* the entries the claim gives the window of n prior paragraphs: the last
\* min(RecentWindow, n) of them under their positions in the section
BoundedWindow(previous_paragraphs) ==
  LET n == Len(previous_paragraphs)
      k == Least(RecentWindow, n)
  IN [j \in 1..k |-> <<n - k + j, previous_paragraphs[n - k + j]>>]

\* C36: every invocation of the Paragraph stage with n prior paragraphs of
\* the section builds an instruction, handed to the generator, whose earlier
\* paragraphs are exactly the last min(3, n) of them, in order, under their
\* 1-based positions n-min(3,n)+1 .. n, the new paragraph being number n+1.
C36_ParagraphWindow ==
  [][StageCallStep("paragraph_layer")
       => /\ Replied
          /\ previous_paragraphs_str(prev_paragraphs) = BoundedWindow(prev_paragraphs)
          /\ para_i + 1 = Len(prev_paragraphs) + 1]_vars

\* the Paragraph stage was invoked with more prior paragraphs than the
\* window holds; the window computed for them is the last three under their
\* positions, but the run ended with the ValueError of the instruction's
\* formatting and the generator was asked nothing
C36_Witness ==
  /\ pc = "exit" /\ outcome = "error" /\ error = "ValueError"
  /\ passed # <<>> /\ passed[Len(passed)].stage[1] = "paragraph_layer"
  /\ Len(passed[Len(passed)].previous) > RecentWindow
  /\ previous_paragraphs_str(passed[Len(passed)].previous)
       = BoundedWindow(passed[Len(passed)].previous)
  /\ Len(previous_paragraphs_str(passed[Len(passed)].previous)) = RecentWindow
  /\ Len(replies) < Len(calls)

\* ---------------------------------------------------------------- C37
\* the chapter numbers under which a Section call for the chapter at ch_i
\* presents the earlier chapters' sections and the later chapters' plots
PresentedEarlier == previous_chapter_numbers(all_previous_sections_of(section_plots, ch_i))

PresentedLater ==
  remaining_chapter_numbers(all_previous_sections_of(section_plots, ch_i),
                            remaining_chapter_plots_of(chapter_plots, ch_i))

\* C37: at every call of the Section stage for chapter c (0-based) the
\* sections of the earlier chapters are presented under the numbers 1..c and
\* the plots of the chapters c+1, c+2, ... under their 1-based numbers c+2,
\* c+3, ...: no number is 0, repeated or the current chapter's number c+1.
C37_CrossChapterNumbering ==
  [][StageCallStep("section_layer")
       => /\ PresentedEarlier = [j \in 1..ch_i |-> j]
          /\ PresentedLater = [j \in 1..(Len(chapter_plots) - ch_i - 1) |-> ch_i + 1 + j]
          /\ \A j \in 1..Len(PresentedLater) :
               /\ PresentedLater[j] # 0
               /\ PresentedLater[j] # ch_i + 1
               /\ \A k \in 1..Len(PresentedEarlier) : PresentedLater[j] # PresentedEarlier[k]]_vars

\* the Section stage has been called for a section of the first chapter
\* while a later chapter was still to be sectioned: that chapter's plot was
\* presented as chapter 0
C37_Witness ==
  /\ pc = "section_layer"
  /\ ch_i = 0 /\ sec_i > 0
  /\ calls # <<>> /\ calls[Len(calls)] = <<"section_layer", 1, sec_i, 0>>
  /\ Len(chapter_plots) > 1
  /\ PresentedLater # <<>>
  /\ PresentedLater[1] = 0

\* ---------------------------------------------------------------- C38
\* no stage function or filter is invoked twice for the same output
NoRepeat == \A i, j \in 1..Len(calls) : calls[i] = calls[j] => i = j

\* the run has ended: completed for its target, or aborted by an error
RunEnded == pc = "exit" /\ outcome \in {"completed", "error"}

\* the run, or the call of the adapter that is followed on its own, is over
Ended == IF llm_pc = "idle" THEN RunEnded ELSE llm_pc = "return"

\* C38: every run eventually ends, completed for its target stage or aborted
\* by an error, whatever the chapter count, the initial store, the resume
\* setting and the generator's failures and responses (the empty string
\* among them); every call of the generator adapter returns, after at most
\* max_retries + 1 attempts; and within a run no stage or filter is invoked
\* twice for the same output. (Behaviours stutter once a run is over, so
\* "again and again over" says of each run, a second one included, that it ends.)
C38_Termination ==
  /\ []<>Ended
  /\ [](invocations <= max_retries + 1)
  /\ []NoRepeat

\* a run of the whole pipeline in which the generator answered the first
\* three stages with the empty string has ended, every dependency check
\* passed once and every chapter generated
C38_Witness ==
  /\ RunEnded
  /\ blank = {"plot_layer", "backstory_layer", "character_layer"}
  /\ chapter_count = MaxChapters
  /\ master_plot = EmptyText /\ backstories = EmptyText /\ characters = EmptyText
  /\ store[CharacterKey] = EmptyText
  /\ Len(chapter_plots) = MaxChapters
  /\ \A stage \in {"plot_layer", "backstory_layer", "character_layer"} :
       Cardinality({i \in 1..Len(calls) : calls[i][1] = stage}) = 1

====
